---- MODULE Spec2Model ----
(***************************************************************************)
(* JSON Event Parser (json_event_parser.py): the character-level lexer     *)
(* (JSONLexer.__iter__), the token-level parser (JSONParser.__iter__) and  *)
(* the position the two share (JSONLexer.line / JSONLexer.column).         *)
(*                                                                         *)
(* A character is a one-character string, a text is a sequence of          *)
(* characters.  The source is read lazily: the document is a concatenation *)
(* of lexemes, and the next lexeme is only decided when the lexer reads    *)
(* past the end of the previous one.                                       *)
(***************************************************************************)
EXTENDS Integers, Sequences, FiniteSets, TLC

(***************************************************************************)
(* Bounds of the explored inputs.                                          *)
(***************************************************************************)
\* A document is made of at most MaxLexemes lexemes.
MaxLexemes == 6

(***************************************************************************)
(* Python constants.  They are texts of one multi-character element, so    *)
(* they differ from every text the lexer can build out of characters.      *)
(***************************************************************************)
None == <<"None">>
PyTrue == <<"True">>
PyFalse == <<"False">>
\* unget = None: the empty one place buffer (falsy in "if unget:").
NoChar == ""
\* The backspace character "\\b" (a string of TLA+ cannot hold it).
BS == "<BS>"

WHITE_SPACES == {" ", "\t", "\r", "\n"}
DIGITS19 == {"1", "2", "3", "4", "5", "6", "7", "8", "9"}
DIGITS == {"0"} \cup DIGITS19
\* HEXDIG of RFC 8259: the digits of a \u escape.
HEXDIG == DIGITS \cup {"a", "b", "c", "d", "e", "f", "A", "B", "C", "D", "E", "F"}

(***************************************************************************)
(* Characters.  A character that a string of TLA+ can hold is that string; *)
(* any other character is written chr(N), N its code, wherever it comes    *)
(* from: the source, an escape, chr().  ASCII is the characters of the     *)
(* codes 32 to 126 in order.                                               *)
(***************************************************************************)
ASCII ==
    <<" ", "!", "\"", "#", "$", "%", "&", "'", "(", ")", "*", "+",
       ",", "-", ".", "/", "0", "1", "2", "3", "4", "5", "6", "7",
       "8", "9", ":", ";", "<", "=", ">", "?", "@", "A", "B", "C",
       "D", "E", "F", "G", "H", "I", "J", "K", "L", "M", "N", "O",
       "P", "Q", "R", "S", "T", "U", "V", "W", "X", "Y", "Z", "[",
       "\\", "]", "^", "_", "chr(96)", "a", "b", "c", "d", "e", "f", "g",
       "h", "i", "j", "k", "l", "m", "n", "o", "p", "q", "r", "s",
       "t", "u", "v", "w", "x", "y", "z", "{", "|", "}", "~">>

\* chr(code)
Chr(code) ==
    CASE code = 8 -> BS
      [] code = 9 -> "\t"
      [] code = 10 -> "\n"
      [] code = 12 -> "\f"
      [] code = 13 -> "\r"
      [] code \in 32..126 -> ASCII[code - 31]
      [] OTHER -> "chr(" \o ToString(code) \o ")"

\* The codes of the digits zero of the decimal digits of Unicode beyond
\* ASCII (category Nd): the digits 0 to 9 of a script are the ten codes from
\* its zero on.
DecimalZeros ==
    { 1632, 1776, 1984, 2406, 2534, 2662, 2790, 2918, 3046, 3174,
      3302, 3430, 3558, 3664, 3792, 3872, 4160, 4240, 6112, 6160,
      6470, 6608, 6784, 6800, 6992, 7088, 7232, 7248, 42528, 43216,
      43264, 43472, 43504, 43600, 44016, 65296, 66720, 68912, 69734, 69872,
      69942, 70096, 70384, 70736, 70864, 71248, 71360, 71472, 71904, 72016,
      72784, 73040, 73120, 92768, 92864, 93008, 120782, 120792, 120802, 120812,
      120822, 123200, 123632, 125264, 130032 }

\* The codes of the blanks of Unicode beyond ASCII (str.isspace).
UnicodeSpaces ==
    { 133, 160, 5760, 8192, 8193, 8194, 8195, 8196, 8197, 8198,
      8199, 8200, 8201, 8202, 8232, 8233, 8239, 8287, 12288 }

\* The decimal digits beyond ASCII that stand for zero, and all of them.
UnicodeZeros == {Chr(z) : z \in DecimalZeros}
UnicodeDigits == {Chr(z + d) : z \in DecimalZeros, d \in 0..9}

\* The characters c of which int(c, 16) is a value.
HEXDIGITS == HEXDIG \cup UnicodeDigits

(***************************************************************************)
(* Tokens and events are pairs (kind, literal).                            *)
(***************************************************************************)
Tok(k, l) == [kind |-> k, lit |-> l]
\* No token in flight between the lexer and the parser.
NoTok == Tok("NoToken", None)

SCALARS == {"BOOLEAN_VALUE", "NULL_VALUE", "INT_VALUE", "FLOAT_VALUE", "STRING"}
BEGINS == {"BEGIN_ARRAY", "BEGIN_OBJECT"}
ENDS == {"END_ARRAY", "END_OBJECT"}

\* An exception: kind "none" while nothing was raised.
Error(k, m, t, x, l, c) ==
    [kind |-> k, msg |-> m, tok |-> t, text |-> x, line |-> l, column |-> c]
NoErr == Error("none", "", NoTok, <<>>, 0, 0)

(***************************************************************************)
(* Sequence helpers.                                                       *)
(***************************************************************************)
Drop(s, n) == SubSeq(s, n + 1, Len(s))
Last(s) == s[Len(s)]

(***************************************************************************)
(* The lexemes the documents of the default specification are made of.     *)
(***************************************************************************)
ParserLexemes ==
    { <<"[">>, <<"]">>, <<"{">>, <<"}">>, <<":">>, <<",">>,
      <<"\"", "a", "\"">>, <<"1">>, <<"t", "r", "u", "e">>, <<"\n">> }

(***************************************************************************)
(* JSONLexer: the transition function of the DFA, one character at a time. *)
(* An iteration of the loop runs up to its yield, if it has one, and the   *)
(* generator stays there until the parser asks for the next token; it runs *)
(* up to the end of the iteration otherwise.  A result is the value of the *)
(* generator's locals at that place, the token yielded (NoTok if none),    *)
(* the message and parameter of the JSONLexError raised ("" if none), and  *)
(* the place pc: "loop" (the head of the loop), "yield" (a yield that ends *)
(* the iteration), "yield_number" (the yield of a number ended by a        *)
(* character, before the four assignments that follow it), "yield_string"  *)
(* (the yield of a string, before buf = ""), "yield_eof" (the yield of a   *)
(* number at the end of the source, before the return) or "returned".  A   *)
(* message is the format string of the source, its backquotes written as   *)
(* quotes.                                                                 *)
(***************************************************************************)
LexRes(st, ss, b, sb, ug, t, em, ex) ==
    [state |-> st, sub_state |-> ss, buf |-> b, sub_buf |-> sb, unget |-> ug,
     tok |-> t, emsg |-> em, etext |-> ex,
     pc |-> IF t # NoTok THEN "yield" ELSE "loop"]

\* The same result with the generator left at the place pc.
At(r, pc) == [r EXCEPT !.pc = pc]

\* The number of characters self._source.read(n) asks for after f, t, n.
SuffixLen(c) ==
    CASE c = "f" -> 4
      [] c = "t" -> 3
      [] c = "n" -> 3
      [] OTHER -> 0

\* Mutant for C27: the letter t yields true whatever follows it.
LexNone_AnyTrue(ss, b, sb, c, suffix) ==
    CASE c \in WHITE_SPACES -> LexRes("NONE", ss, b, sb, NoChar, NoTok, "", <<>>)
      [] c = "f" ->
            IF suffix # <<"a", "l", "s", "e">>
            THEN LexRes("NONE", ss, b, sb, NoChar, NoTok, "Expected 'false'", <<>>)
            ELSE LexRes("NONE", ss, b, sb, NoChar, Tok("BOOLEAN_VALUE", PyFalse), "", <<>>)
      [] c = "t" ->
            LexRes("NONE", ss, b, sb, NoChar, Tok("BOOLEAN_VALUE", PyTrue), "", <<>>)
      [] c = "n" ->
            IF suffix # <<"u", "l", "l">>
            THEN LexRes("NONE", ss, b, sb, NoChar, NoTok, "Expected 'null'", <<>>)
            ELSE LexRes("NONE", ss, b, sb, NoChar, Tok("NULL_VALUE", None), "", <<>>)
      [] c = "{" -> LexRes("NONE", ss, b, sb, NoChar, Tok("BEGIN_OBJECT", None), "", <<>>)
      [] c = "}" -> LexRes("NONE", ss, b, sb, NoChar, Tok("END_OBJECT", None), "", <<>>)
      [] c = "[" -> LexRes("NONE", ss, b, sb, NoChar, Tok("BEGIN_ARRAY", None), "", <<>>)
      [] c = "]" -> LexRes("NONE", ss, b, sb, NoChar, Tok("END_ARRAY", None), "", <<>>)
      [] c = ":" -> LexRes("NONE", ss, b, sb, NoChar, Tok("NAME_SEPARATOR", None), "", <<>>)
      [] c = "," -> LexRes("NONE", ss, b, sb, NoChar, Tok("VALUE_SEPARATOR", None), "", <<>>)
      [] c = "-" -> LexRes("NUMBER", "NEG_NUMBER_START", <<"-">>, sb, NoChar, NoTok, "", <<>>)
      [] c = "0" -> LexRes("NUMBER", "ZERO_NUMBER_START", <<"0">>, sb, NoChar, NoTok, "", <<>>)
      [] c \in DIGITS19 -> LexRes("NUMBER", "OTHER_NUMBER", <<c>>, sb, NoChar, NoTok, "", <<>>)
      [] c = "\"" -> LexRes("STRING", "NONE", <<>>, sb, NoChar, NoTok, "", <<>>)
      [] OTHER -> LexRes("NONE", ss, b, sb, NoChar, NoTok, "Unexpected char '{}'", <<c>>)

\* Mutant for C33: a blank is pushed back.
LexNone_BlankAgain(ss, b, sb, c, suffix) ==
    CASE c \in WHITE_SPACES -> LexRes("NONE", ss, b, sb, c, NoTok, "", <<>>)
      [] c = "f" ->
            IF suffix # <<"a", "l", "s", "e">>
            THEN LexRes("NONE", ss, b, sb, NoChar, NoTok, "Expected 'false'", <<>>)
            ELSE LexRes("NONE", ss, b, sb, NoChar, Tok("BOOLEAN_VALUE", PyFalse), "", <<>>)
      [] c = "t" ->
            IF suffix # <<"r", "u", "e">>
            THEN LexRes("NONE", ss, b, sb, NoChar, NoTok, "Expected 'true'", <<>>)
            ELSE LexRes("NONE", ss, b, sb, NoChar, Tok("BOOLEAN_VALUE", PyTrue), "", <<>>)
      [] c = "n" ->
            IF suffix # <<"u", "l", "l">>
            THEN LexRes("NONE", ss, b, sb, NoChar, NoTok, "Expected 'null'", <<>>)
            ELSE LexRes("NONE", ss, b, sb, NoChar, Tok("NULL_VALUE", None), "", <<>>)
      [] c = "{" -> LexRes("NONE", ss, b, sb, NoChar, Tok("BEGIN_OBJECT", None), "", <<>>)
      [] c = "}" -> LexRes("NONE", ss, b, sb, NoChar, Tok("END_OBJECT", None), "", <<>>)
      [] c = "[" -> LexRes("NONE", ss, b, sb, NoChar, Tok("BEGIN_ARRAY", None), "", <<>>)
      [] c = "]" -> LexRes("NONE", ss, b, sb, NoChar, Tok("END_ARRAY", None), "", <<>>)
      [] c = ":" -> LexRes("NONE", ss, b, sb, NoChar, Tok("NAME_SEPARATOR", None), "", <<>>)
      [] c = "," -> LexRes("NONE", ss, b, sb, NoChar, Tok("VALUE_SEPARATOR", None), "", <<>>)
      [] c = "-" -> LexRes("NUMBER", "NEG_NUMBER_START", <<"-">>, sb, NoChar, NoTok, "", <<>>)
      [] c = "0" -> LexRes("NUMBER", "ZERO_NUMBER_START", <<"0">>, sb, NoChar, NoTok, "", <<>>)
      [] c \in DIGITS19 -> LexRes("NUMBER", "OTHER_NUMBER", <<c>>, sb, NoChar, NoTok, "", <<>>)
      [] c = "\"" -> LexRes("STRING", "NONE", <<>>, sb, NoChar, NoTok, "", <<>>)
      [] OTHER -> LexRes("NONE", ss, b, sb, NoChar, NoTok, "Unexpected char '{}'", <<c>>)

\* state == LexerState.NONE; suffix is what read(SuffixLen(c)) returned.
LexNone(ss, b, sb, c, suffix) ==
    CASE c \in WHITE_SPACES -> LexRes("NONE", ss, b, sb, NoChar, NoTok, "", <<>>)
      [] c = "f" ->
            IF suffix # <<"a", "l", "s", "e">>
            THEN LexRes("NONE", ss, b, sb, NoChar, NoTok, "Expected 'false'", <<>>)
            ELSE LexRes("NONE", ss, b, sb, NoChar, Tok("BOOLEAN_VALUE", PyFalse), "", <<>>)
      [] c = "t" ->
            IF suffix # <<"r", "u", "e">>
            THEN LexRes("NONE", ss, b, sb, NoChar, NoTok, "Expected 'true'", <<>>)
            ELSE LexRes("NONE", ss, b, sb, NoChar, Tok("BOOLEAN_VALUE", PyTrue), "", <<>>)
      [] c = "n" ->
            IF suffix # <<"u", "l", "l">>
            THEN LexRes("NONE", ss, b, sb, NoChar, NoTok, "Expected 'null'", <<>>)
            ELSE LexRes("NONE", ss, b, sb, NoChar, Tok("NULL_VALUE", None), "", <<>>)
      [] c = "{" -> LexRes("NONE", ss, b, sb, NoChar, Tok("BEGIN_OBJECT", None), "", <<>>)
      [] c = "}" -> LexRes("NONE", ss, b, sb, NoChar, Tok("END_OBJECT", None), "", <<>>)
      [] c = "[" -> LexRes("NONE", ss, b, sb, NoChar, Tok("BEGIN_ARRAY", None), "", <<>>)
      [] c = "]" -> LexRes("NONE", ss, b, sb, NoChar, Tok("END_ARRAY", None), "", <<>>)
      [] c = ":" -> LexRes("NONE", ss, b, sb, NoChar, Tok("NAME_SEPARATOR", None), "", <<>>)
      [] c = "," -> LexRes("NONE", ss, b, sb, NoChar, Tok("VALUE_SEPARATOR", None), "", <<>>)
      [] c = "-" -> LexRes("NUMBER", "NEG_NUMBER_START", <<"-">>, sb, NoChar, NoTok, "", <<>>)
      [] c = "0" -> LexRes("NUMBER", "ZERO_NUMBER_START", <<"0">>, sb, NoChar, NoTok, "", <<>>)
      [] c \in DIGITS19 -> LexRes("NUMBER", "OTHER_NUMBER", <<c>>, sb, NoChar, NoTok, "", <<>>)
      [] c = "\"" -> LexRes("STRING", "NONE", <<>>, sb, NoChar, NoTok, "", <<>>)
      [] OTHER -> LexRes("NONE", ss, b, sb, NoChar, NoTok, "Unexpected char '{}'", <<c>>)

\* Mutant for C25: a number that ends on a character is an int whatever its
\* substate.
NumberYield_AlwaysInt(kind, lit, ss, b, sb) ==
    At(LexRes("NUMBER", ss, b, sb, NoChar, Tok("INT_VALUE", lit), "", <<>>),
       "yield_number")

\* A character that cannot go on with a complete number: the token is
\* yielded, the locals as they are.
NumberYield(kind, lit, ss, b, sb) ==
    At(LexRes("NUMBER", ss, b, sb, NoChar, Tok(kind, lit), "", <<>>),
       "yield_number")

\* Mutant for C16: the character that ends a number is not pushed back.
NumberEnd_NoUnget(b, sb, c) ==
    LexRes("NONE", "NONE", None, sb, NoChar, NoTok, "", <<>>)

\* After the yield of a number that the character c ended:
\* buf = None; unget = next_char; state = NONE; sub_state = NONE.
NumberEnd(b, sb, c) ==
    LexRes("NONE", "NONE", None, sb, c, NoTok, "", <<>>)

\* str(sub_state): the member of the enumeration with the name of its class,
\* or None before the first token.
StrSubState(ss) == IF ss = "None" THEN "None" ELSE "LexerSubState." \o ss

\* state == LexerState.NUMBER
LexNumber(ss, b, sb, c) ==
    CASE ss = "NEG_NUMBER_START" ->
            IF c = "0" THEN LexRes("NUMBER", "ZERO_NUMBER_START", b \o <<"0">>, sb, NoChar, NoTok, "", <<>>)
            ELSE IF c \in DIGITS19 THEN LexRes("NUMBER", "OTHER_NUMBER", b \o <<c>>, sb, NoChar, NoTok, "", <<>>)
            ELSE LexRes("NUMBER", ss, b, sb, NoChar, NoTok, "Expected digit, got '{}'", <<c>>)
      [] ss = "ZERO_NUMBER_START" ->
            IF c = "." THEN LexRes("NUMBER", "NUMBER_FRAC_START", b \o <<".">>, sb, NoChar, NoTok, "", <<>>)
            ELSE IF c = "e" \/ c = "E" THEN LexRes("NUMBER", "NUMBER_FRAC_EXP_START", b \o <<"e">>, sb, NoChar, NoTok, "", <<>>)
            ELSE NumberYield("INT_VALUE", <<"0">>, ss, b, sb)
      [] ss = "OTHER_NUMBER" ->
            IF c = "." THEN LexRes("NUMBER", "NUMBER_FRAC_START", b \o <<".">>, sb, NoChar, NoTok, "", <<>>)
            ELSE IF c \in DIGITS THEN LexRes("NUMBER", ss, b \o <<c>>, sb, NoChar, NoTok, "", <<>>)
            ELSE IF c \in {"e", "E"} THEN LexRes("NUMBER", "NUMBER_FRAC_EXP_START", b \o <<"e">>, sb, NoChar, NoTok, "", <<>>)
            ELSE NumberYield("INT_VALUE", b, ss, b, sb)
      [] ss = "NUMBER_FRAC_START" ->
            IF c \in DIGITS THEN LexRes("NUMBER", "NUMBER_FRAC", b \o <<c>>, sb, NoChar, NoTok, "", <<>>)
            ELSE LexRes("NUMBER", ss, b, sb, NoChar, NoTok, "Missing decimals '{}'", b)
      [] ss = "NUMBER_FRAC" ->
            IF c = "e" \/ c = "E" THEN LexRes("NUMBER", "NUMBER_FRAC_EXP_START", b \o <<"e">>, sb, NoChar, NoTok, "", <<>>)
            ELSE IF c \in DIGITS THEN LexRes("NUMBER", ss, b \o <<c>>, sb, NoChar, NoTok, "", <<>>)
            ELSE NumberYield("FLOAT_VALUE", b, ss, b, sb)
      [] ss = "NUMBER_FRAC_EXP_START" ->
            IF c = "-" THEN LexRes("NUMBER", "NUMBER_FRAC_EXP_MINUS_START", b \o <<"-">>, sb, NoChar, NoTok, "", <<>>)
            ELSE IF c \in DIGITS THEN LexRes("NUMBER", "NUMBER_FRAC_EXP", b \o <<c>>, sb, NoChar, NoTok, "", <<>>)
            ELSE LexRes("NUMBER", ss, b, sb, NoChar, NoTok, "Missing exp '{}'", b)
      [] ss = "NUMBER_FRAC_EXP" ->
            IF c \in DIGITS THEN LexRes("NUMBER", ss, b \o <<c>>, sb, NoChar, NoTok, "", <<>>)
            ELSE NumberYield("FLOAT_VALUE", b, ss, b, sb)
      [] ss = "NUMBER_FRAC_EXP_MINUS_START" ->
            IF c \in DIGITS THEN LexRes("NUMBER", "NUMBER_FRAC_EXP_MINUS", b \o <<c>>, sb, NoChar, NoTok, "", <<>>)
            ELSE LexRes("NUMBER", ss, b, sb, NoChar, NoTok, "Missing exp '{}'", b)
      [] ss = "NUMBER_FRAC_EXP_MINUS" ->
            IF c \in DIGITS THEN LexRes("NUMBER", ss, b \o <<c>>, sb, NoChar, NoTok, "", <<>>)
            ELSE NumberYield("FLOAT_VALUE", b, ss, b, sb)
      [] OTHER -> LexRes("NUMBER", ss, b, sb, NoChar, NoTok,
                         "Unexpected number state " \o StrSubState(ss), <<>>)

\* int(c, 16) of one digit: a hexadecimal digit of ASCII, or a decimal digit
\* of any script.
HexVal(c) ==
    CASE c = "0" -> 0 [] c = "1" -> 1 [] c = "2" -> 2 [] c = "3" -> 3
      [] c = "4" -> 4 [] c = "5" -> 5 [] c = "6" -> 6 [] c = "7" -> 7
      [] c = "8" -> 8 [] c = "9" -> 9
      [] c \in {"a", "A"} -> 10 [] c \in {"b", "B"} -> 11
      [] c \in {"c", "C"} -> 12 [] c \in {"d", "D"} -> 13
      [] c \in {"e", "E"} -> 14 [] c \in {"f", "F"} -> 15
      [] c \in UnicodeDigits ->
            CHOOSE d \in 0..9 : \E z \in DecimalZeros : Chr(z + d) = c

\* The blanks int() strips around a literal: those of ASCII (space, \t, \n,
\* \v, \f, \r) and those of Unicode beyond ASCII.
BLANKS ==
    {" ", "\t", "\n", Chr(11), "\f", "\r"} \cup {Chr(n) : n \in UnicodeSpaces}

RECURSIVE LStrip(_)
LStrip(s) == IF s # <<>> /\ Head(s) \in BLANKS THEN LStrip(Tail(s)) ELSE s

RECURSIVE RStrip(_)
RStrip(s) ==
    IF s # <<>> /\ Last(s) \in BLANKS THEN RStrip(SubSeq(s, 1, Len(s) - 1)) ELSE s

\* The digits of a literal of int(..., 16): digits, with single underscores
\* between them (and one after the prefix 0x).  prev is "start", "prefix",
\* "digit" or "underscore"; the result is -1 for a ValueError.
RECURSIVE HexDigitsValue(_, _, _)
HexDigitsValue(s, acc, prev) ==
    IF s = <<>> THEN (IF prev = "digit" THEN acc ELSE -1)
    ELSE IF Head(s) \in HEXDIGITS
         THEN HexDigitsValue(Tail(s), 16 * acc + HexVal(Head(s)), "digit")
    ELSE IF Head(s) = "_" /\ prev \in {"digit", "prefix"}
         THEN HexDigitsValue(Tail(s), acc, "underscore")
    ELSE -1

\* int("".join(sub_buf), 16) for any four characters: blanks around, a sign,
\* the prefix 0x or 0X (its zero of any script), then the digits.  ok is
\* FALSE for a ValueError.
IntBase16(sb) ==
    LET t == RStrip(LStrip(sb))
        signed == t # <<>> /\ Head(t) \in {"+", "-"}
        u == IF signed THEN Tail(t) ELSE t
        prefixed == /\ Len(u) >= 2 /\ u[1] \in {"0"} \cup UnicodeZeros
                    /\ u[2] \in {"x", "X"}
        v == IF prefixed
             THEN HexDigitsValue(Drop(u, 2), 0, "prefix")
             ELSE HexDigitsValue(u, 0, "start")
    IN [ok |-> v >= 0, val |-> IF signed /\ Head(t) = "-" THEN 0 - v ELSE v]

\* Mutant for C17: the escape of n appends the letter n.
LexString_PlainN(ss, b, sb, c) ==
    CASE ss = "ESCAPE" ->
            CASE c \in {"\"", "\\"} -> LexRes("STRING", "NONE", b \o <<c>>, sb, NoChar, NoTok, "", <<>>)
              [] c = "b" -> LexRes("STRING", "NONE", b \o <<BS>>, sb, NoChar, NoTok, "", <<>>)
              [] c = "f" -> LexRes("STRING", "NONE", b \o <<"\f">>, sb, NoChar, NoTok, "", <<>>)
              [] c = "n" -> LexRes("STRING", "NONE", b \o <<"n">>, sb, NoChar, NoTok, "", <<>>)
              [] c = "r" -> LexRes("STRING", "NONE", b \o <<"\r">>, sb, NoChar, NoTok, "", <<>>)
              [] c = "t" -> LexRes("STRING", "NONE", b \o <<"\t">>, sb, NoChar, NoTok, "", <<>>)
              [] c = "u" -> LexRes("STRING", "UNICODE", b, <<>>, NoChar, NoTok, "", <<>>)
              [] OTHER -> LexRes("STRING", ss, b, sb, NoChar, NoTok, "Unknown escaped char: '{}'", <<c>>)
      [] ss = "UNICODE" ->
            IF Len(sb) + 1 = 4
            THEN IF IntBase16(sb \o <<c>>).ok /\ IntBase16(sb \o <<c>>).val >= 0
                 THEN LexRes("STRING", "NONE", b \o <<Chr(IntBase16(sb \o <<c>>).val)>>, None, NoChar, NoTok, "", <<>>)
                 ELSE LexRes("STRING", ss, b, sb \o <<c>>, NoChar, NoTok, "ValueError", sb \o <<c>>)
            ELSE LexRes("STRING", ss, b, sb \o <<c>>, NoChar, NoTok, "", <<>>)
      [] c = "\\" -> LexRes("STRING", "ESCAPE", b, sb, NoChar, NoTok, "", <<>>)
      [] c = "\"" -> At(LexRes("NONE", ss, b, sb, NoChar, Tok("STRING", b), "", <<>>),
                         "yield_string")
      [] OTHER -> LexRes("STRING", ss, b \o <<c>>, sb, NoChar, NoTok, "", <<>>)

\* state == LexerState.STRING.  In substate UNICODE, the fourth character
\* ends the escape: int(..., 16) of the four characters, then chr() of the
\* value; either can raise a ValueError, which is no JSONLexError.  The
\* closing quote sets the state to NONE and yields the string.
LexString(ss, b, sb, c) ==
    CASE ss = "ESCAPE" ->
            CASE c \in {"\"", "\\"} -> LexRes("STRING", "NONE", b \o <<c>>, sb, NoChar, NoTok, "", <<>>)
              [] c = "b" -> LexRes("STRING", "NONE", b \o <<BS>>, sb, NoChar, NoTok, "", <<>>)
              [] c = "f" -> LexRes("STRING", "NONE", b \o <<"\f">>, sb, NoChar, NoTok, "", <<>>)
              [] c = "n" -> LexRes("STRING", "NONE", b \o <<"\n">>, sb, NoChar, NoTok, "", <<>>)
              [] c = "r" -> LexRes("STRING", "NONE", b \o <<"\r">>, sb, NoChar, NoTok, "", <<>>)
              [] c = "t" -> LexRes("STRING", "NONE", b \o <<"\t">>, sb, NoChar, NoTok, "", <<>>)
              [] c = "u" -> LexRes("STRING", "UNICODE", b, <<>>, NoChar, NoTok, "", <<>>)
              [] OTHER -> LexRes("STRING", ss, b, sb, NoChar, NoTok, "Unknown escaped char: '{}'", <<c>>)
      [] ss = "UNICODE" ->
            IF Len(sb) + 1 = 4
            THEN IF IntBase16(sb \o <<c>>).ok /\ IntBase16(sb \o <<c>>).val >= 0
                 THEN LexRes("STRING", "NONE", b \o <<Chr(IntBase16(sb \o <<c>>).val)>>, None, NoChar, NoTok, "", <<>>)
                 ELSE LexRes("STRING", ss, b, sb \o <<c>>, NoChar, NoTok, "ValueError", sb \o <<c>>)
            ELSE LexRes("STRING", ss, b, sb \o <<c>>, NoChar, NoTok, "", <<>>)
      [] c = "\\" -> LexRes("STRING", "ESCAPE", b, sb, NoChar, NoTok, "", <<>>)
      [] c = "\"" -> At(LexRes("NONE", ss, b, sb, NoChar, Tok("STRING", b), "", <<>>),
                         "yield_string")
      [] OTHER -> LexRes("STRING", ss, b \o <<c>>, sb, NoChar, NoTok, "", <<>>)

\* One character other than "\n" in the current state.
LexChar(st, ss, b, sb, c, suffix) ==
    CASE st = "NONE" -> LexNone(ss, b, sb, c, suffix)
      [] st = "NUMBER" -> LexNumber(ss, b, sb, c)
      [] st = "STRING" -> LexString(ss, b, sb, c)

\* At the end of the source the generator yields and then returns, or
\* returns, or raises.
AtEof(r) == At(r, IF r.tok # NoTok THEN "yield_eof" ELSE "returned")

\* Mutant for C15: the end of the source flushes an open string the way it
\* flushes a complete number.
LexEof_FlushString(st, ss, b, sb) ==
    AtEof(
    IF st = "NUMBER"
    THEN CASE ss = "ZERO_NUMBER_START" -> LexRes(st, ss, b, sb, NoChar, Tok("INT_VALUE", <<"0">>), "", <<>>)
           [] ss = "NEG_NUMBER_START" -> LexRes(st, ss, b, sb, NoChar, NoTok, "Missing digits '{}'", b)
           [] ss = "OTHER_NUMBER" -> LexRes(st, ss, b, sb, NoChar, Tok("INT_VALUE", b), "", <<>>)
           [] ss = "NUMBER_FRAC_START" -> LexRes(st, ss, b, sb, NoChar, NoTok, "Missing decimals '{}'", b)
           [] ss = "NUMBER_FRAC" -> LexRes(st, ss, b, sb, NoChar, Tok("FLOAT_VALUE", b), "", <<>>)
           [] ss = "NUMBER_FRAC_EXP_START" -> LexRes(st, ss, b, sb, NoChar, NoTok, "Missing exp '{}'", b)
           [] ss = "NUMBER_FRAC_EXP" -> LexRes(st, ss, b, sb, NoChar, Tok("FLOAT_VALUE", b), "", <<>>)
           [] ss = "NUMBER_FRAC_EXP_MINUS_START" -> LexRes(st, ss, b, sb, NoChar, NoTok, "Missing exp '{}'", b)
           [] ss = "NUMBER_FRAC_EXP_MINUS" -> LexRes(st, ss, b, sb, NoChar, Tok("FLOAT_VALUE", b), "", <<>>)
           [] OTHER -> LexRes(st, ss, b, sb, NoChar, NoTok, "", <<>>)
    ELSE IF st = "STRING" /\ ss = "NONE"
    THEN LexRes(st, ss, b, sb, NoChar, Tok("STRING", b), "", <<>>)
    ELSE IF st = "STRING"
    THEN LexRes(st, ss, b, sb, NoChar, NoTok, "Missing end quote '{}'", b)
    ELSE LexRes(st, ss, b, sb, NoChar, NoTok, "", <<>>))

\* if not next_char: the end of the source.
LexEof(st, ss, b, sb) ==
    AtEof(
    IF st = "NUMBER"
    THEN CASE ss = "ZERO_NUMBER_START" -> LexRes(st, ss, b, sb, NoChar, Tok("INT_VALUE", <<"0">>), "", <<>>)
           [] ss = "NEG_NUMBER_START" -> LexRes(st, ss, b, sb, NoChar, NoTok, "Missing digits '{}'", b)
           [] ss = "OTHER_NUMBER" -> LexRes(st, ss, b, sb, NoChar, Tok("INT_VALUE", b), "", <<>>)
           [] ss = "NUMBER_FRAC_START" -> LexRes(st, ss, b, sb, NoChar, NoTok, "Missing decimals '{}'", b)
           [] ss = "NUMBER_FRAC" -> LexRes(st, ss, b, sb, NoChar, Tok("FLOAT_VALUE", b), "", <<>>)
           [] ss = "NUMBER_FRAC_EXP_START" -> LexRes(st, ss, b, sb, NoChar, NoTok, "Missing exp '{}'", b)
           [] ss = "NUMBER_FRAC_EXP" -> LexRes(st, ss, b, sb, NoChar, Tok("FLOAT_VALUE", b), "", <<>>)
           [] ss = "NUMBER_FRAC_EXP_MINUS_START" -> LexRes(st, ss, b, sb, NoChar, NoTok, "Missing exp '{}'", b)
           [] ss = "NUMBER_FRAC_EXP_MINUS" -> LexRes(st, ss, b, sb, NoChar, Tok("FLOAT_VALUE", b), "", <<>>)
           [] OTHER -> LexRes(st, ss, b, sb, NoChar, NoTok, "", <<>>)
    ELSE IF st = "STRING"
    THEN LexRes(st, ss, b, sb, NoChar, NoTok, "Missing end quote '{}'", b)
    ELSE LexRes(st, ss, b, sb, NoChar, NoTok, "", <<>>))

\* What the iteration does once the parser asks for the next token, the
\* generator at the yield pc: the assignments that follow the yield of a
\* number or of a string, the return at the end of the source, or nothing.
LexAfterYield(pc, st, ss, b, sb, c) ==
    CASE pc = "yield_number" -> NumberEnd(b, sb, c)
      [] pc = "yield_string" -> LexRes(st, ss, <<>>, sb, NoChar, NoTok, "", <<>>)
      [] pc = "yield_eof" -> At(LexRes(st, ss, b, sb, NoChar, NoTok, "", <<>>), "returned")
      [] OTHER -> LexRes(st, ss, b, sb, NoChar, NoTok, "", <<>>)

(***************************************************************************)
(* JSONParser: the transition function of the PDA, one token at a time.    *)
(* A result is the event the body of the loop yields for the token (NoTok  *)
(* if none), the state and the stack once the body has run to its end, and *)
(* the message and parameters of the exception raised ("" if none).  The   *)
(* body assigns nothing before its yield, and goes on after it when the    *)
(* consumer asks for the next event.                                       *)
(***************************************************************************)
ParRes(st, stk, ev, em, ex) ==
    [state |-> st, states |-> stk, emit |-> ev, emsg |-> em, etext |-> ex]

\* Mutant for C30: the end of a container restores the state and leaves the
\* stack as it is.
PopState_NoPop(st, stk, t) ==
    IF stk = <<>>
    THEN ParRes(st, stk, t, "IndexError", <<>>)
    ELSE ParRes(Last(stk), stk, t, "", <<>>)

\* yield t; state = states.pop()
PopState(st, stk, t) ==
    IF stk = <<>>
    THEN ParRes(st, stk, t, "IndexError", <<>>)
    ELSE ParRes(Last(stk), SubSeq(stk, 1, Len(stk) - 1), t, "", <<>>)

\* state == ParserState.NONE, after its "yield t".
ParseNone(stk, t) ==
    IF t.kind = "BEGIN_ARRAY" THEN ParRes("IN_ARRAY", Append(stk, "NONE"), NoTok, "", <<>>)
    ELSE IF t.kind = "BEGIN_OBJECT" THEN ParRes("IN_OBJECT", Append(stk, "NONE"), NoTok, "", <<>>)
    ELSE IF t.kind \notin SCALARS THEN ParRes("NONE", stk, NoTok, "Unexpected token '{}'", <<>>)
    ELSE ParRes("NONE", stk, NoTok, "", <<>>)

\* Mutant for C1: a container nested in an array is entered without a push.
ParseInArray_NoPush(stk, t) ==
    IF t.kind = "END_ARRAY" THEN PopState("IN_ARRAY", stk, t)
    ELSE IF t.kind \in SCALARS THEN ParRes("IN_ARRAY_SEP", stk, t, "", <<>>)
    ELSE IF t.kind = "BEGIN_ARRAY" THEN ParRes("IN_ARRAY", stk, t, "", <<>>)
    ELSE IF t.kind = "BEGIN_OBJECT" THEN ParRes("IN_OBJECT", stk, t, "", <<>>)
    ELSE ParRes("IN_ARRAY", stk, NoTok, "Unexpected token '{}' as array element", <<>>)

\* Mutant for C31: a container nested in an array is entered with the state
\* IN_ARRAY on the stack.
ParseInArray_PushSelf(stk, t) ==
    IF t.kind = "END_ARRAY" THEN PopState("IN_ARRAY", stk, t)
    ELSE IF t.kind \in SCALARS THEN ParRes("IN_ARRAY_SEP", stk, t, "", <<>>)
    ELSE IF t.kind = "BEGIN_ARRAY" THEN ParRes("IN_ARRAY", Append(stk, "IN_ARRAY"), t, "", <<>>)
    ELSE IF t.kind = "BEGIN_OBJECT" THEN ParRes("IN_OBJECT", Append(stk, "IN_ARRAY"), t, "", <<>>)
    ELSE ParRes("IN_ARRAY", stk, NoTok, "Unexpected token '{}' as array element", <<>>)

\* state == ParserState.IN_ARRAY
ParseInArray(stk, t) ==
    IF t.kind = "END_ARRAY" THEN PopState("IN_ARRAY", stk, t)
    ELSE IF t.kind \in SCALARS THEN ParRes("IN_ARRAY_SEP", stk, t, "", <<>>)
    ELSE IF t.kind = "BEGIN_ARRAY" THEN ParRes("IN_ARRAY", Append(stk, "IN_ARRAY_SEP"), t, "", <<>>)
    ELSE IF t.kind = "BEGIN_OBJECT" THEN ParRes("IN_OBJECT", Append(stk, "IN_ARRAY_SEP"), t, "", <<>>)
    ELSE ParRes("IN_ARRAY", stk, NoTok, "Unexpected token '{}' as array element", <<>>)

\* state == ParserState.IN_ARRAY_SEP
ParseInArraySep(stk, t) ==
    IF t.kind = "END_ARRAY" THEN PopState("IN_ARRAY_SEP", stk, t)
    ELSE IF t.kind = "VALUE_SEPARATOR" THEN ParRes("IN_ARRAY", stk, NoTok, "", <<>>)
    ELSE ParRes("IN_ARRAY_SEP", stk, NoTok, "Unexpected token '{}' in array, expected '{}'",
                <<"LexerToken.VALUE_SEPARATOR">>)

\* Mutant for C5: the member name is emitted as the STRING token it was.
ParseInObject_StringKey(stk, t) ==
    IF t.kind = "END_OBJECT" THEN PopState("IN_OBJECT", stk, t)
    ELSE IF t.kind = "STRING" THEN ParRes("IN_OBJECT_MEMBER", stk, t, "", <<>>)
    ELSE ParRes("IN_OBJECT", stk, NoTok, "Unexpected token '{}' as object member", <<>>)

\* state == ParserState.IN_OBJECT
ParseInObject(stk, t) ==
    IF t.kind = "END_OBJECT" THEN PopState("IN_OBJECT", stk, t)
    ELSE IF t.kind = "STRING" THEN ParRes("IN_OBJECT_MEMBER", stk, Tok("KEY", t.lit), "", <<>>)
    ELSE ParRes("IN_OBJECT", stk, NoTok, "Unexpected token '{}' as object member", <<>>)

\* state == ParserState.IN_OBJECT_MEMBER
ParseInObjectMember(stk, t) ==
    IF t.kind = "NAME_SEPARATOR" THEN ParRes("IN_OBJECT_MEMBER_VALUE", stk, NoTok, "", <<>>)
    ELSE ParRes("IN_OBJECT_MEMBER", stk, NoTok, "Unexpected token '{}', expected {}",
                <<"LexerToken.NAME_SEPARATOR">>)

\* Mutant for C6: "}" is accepted where the value of a member is awaited.
ParseInObjectMemberValue_AcceptEnd(stk, t) ==
    IF t.kind \in SCALARS THEN ParRes("IN_OBJECT_SEP", stk, t, "", <<>>)
    ELSE IF t.kind = "BEGIN_ARRAY" THEN ParRes("IN_ARRAY", Append(stk, "IN_OBJECT_SEP"), t, "", <<>>)
    ELSE IF t.kind = "BEGIN_OBJECT" THEN ParRes("IN_OBJECT", Append(stk, "IN_OBJECT_SEP"), t, "", <<>>)
    ELSE IF t.kind = "END_OBJECT" THEN PopState("IN_OBJECT_MEMBER_VALUE", stk, t)
    ELSE ParRes("IN_OBJECT_MEMBER_VALUE", stk, NoTok, "Unexpected token '{}' as member value", <<>>)

\* state == ParserState.IN_OBJECT_MEMBER_VALUE
ParseInObjectMemberValue(stk, t) ==
    IF t.kind \in SCALARS THEN ParRes("IN_OBJECT_SEP", stk, t, "", <<>>)
    ELSE IF t.kind = "BEGIN_ARRAY" THEN ParRes("IN_ARRAY", Append(stk, "IN_OBJECT_SEP"), t, "", <<>>)
    ELSE IF t.kind = "BEGIN_OBJECT" THEN ParRes("IN_OBJECT", Append(stk, "IN_OBJECT_SEP"), t, "", <<>>)
    ELSE ParRes("IN_OBJECT_MEMBER_VALUE", stk, NoTok, "Unexpected token '{}' as member value", <<>>)

\* Mutant for C8: the message of IN_OBJECT in state IN_OBJECT_SEP.
ParseInObjectSep_WrongCategory(stk, t) ==
    IF t.kind = "END_OBJECT" THEN PopState("IN_OBJECT_SEP", stk, t)
    ELSE IF t.kind = "VALUE_SEPARATOR" THEN ParRes("IN_OBJECT", stk, NoTok, "", <<>>)
    ELSE ParRes("IN_OBJECT_SEP", stk, NoTok, "Unexpected token '{}' as object member", <<>>)

\* state == ParserState.IN_OBJECT_SEP
ParseInObjectSep(stk, t) ==
    IF t.kind = "END_OBJECT" THEN PopState("IN_OBJECT_SEP", stk, t)
    ELSE IF t.kind = "VALUE_SEPARATOR" THEN ParRes("IN_OBJECT", stk, NoTok, "", <<>>)
    ELSE ParRes("IN_OBJECT_SEP", stk, NoTok, "Unexpected token '{}' in object", <<>>)

\* One token in a state other than NONE (no branch of the loop body matches
\* the unused state EXPECTED_KEY).
ParseTok(st, stk, t) ==
    CASE st = "IN_ARRAY" -> ParseInArray(stk, t)
      [] st = "IN_ARRAY_SEP" -> ParseInArraySep(stk, t)
      [] st = "IN_OBJECT" -> ParseInObject(stk, t)
      [] st = "IN_OBJECT_MEMBER" -> ParseInObjectMember(stk, t)
      [] st = "IN_OBJECT_MEMBER_VALUE" -> ParseInObjectMemberValue(stk, t)
      [] st = "IN_OBJECT_SEP" -> ParseInObjectSep(stk, t)
      [] OTHER -> ParRes(st, stk, NoTok, "", <<>>)

\* JSONParser._parse_error: raise JSONParseError(msg, column, line), whose
\* constructor is JSONParseError(msg, line, column).
ParseError(m, t, x, lexline, lexcolumn) ==
    Error("ParseError", m, t, x, lexcolumn, lexline)

\* JSONLexer._lex_error: raise JSONLexError(msg, self.line, self.column).
LexError(m, x, lexline, lexcolumn) ==
    Error("LexError", m, NoTok, x, lexline, lexcolumn)

(***************************************************************************)
(* JSONAsXML: the fragments of XML text rendered from the events of the    *)
(* parser.  A fragment is a text: what str.format makes of a template of   *)
(* the renderer and its arguments.  The header, the root tag and the list  *)
(* item tag are the defaults of the constructor.                           *)
(***************************************************************************)
XML_HEADER ==
    <<"<", "?", "x", "m", "l", " ", "v", "e", "r", "s", "i", "o", "n", "=", "\"", "1", ".", "0", "\"", " ", "e", "n", "c", "o", "d", "i", "n", "g", "=", "\"", "u", "t", "f", "-", "8", "\"", "?", ">">>
LIST_ITEM_TAG == <<"l", "i">>
ROOT_TAG == <<"r", "o", "o", "t">>

\* range(10): the length of the table of indentations self._tabs at first.
TabsLen == 10

\* dest: a text file of one of these encodings, or an io.StringIO, which
\* has none and keeps every character.
NoEncoding == "None"
DestEncodings == {"utf-8", "ascii", "latin-1", NoEncoding}

\* value.replace("]]>", "]]]]><![CDATA[>")
RECURSIVE ReplaceCDataEnd(_)
ReplaceCDataEnd(value) ==
    IF value = <<>> THEN <<>>
    ELSE IF Len(value) >= 3 /\ SubSeq(value, 1, 3) = <<"]", "]", ">">>
    THEN <<"]", "]", "]", "]", ">", "<", "!", "[", "C", "D", "A", "T", "A", "[", ">">>
         \o ReplaceCDataEnd(Drop(value, 3))
    ELSE <<Head(value)>> \o ReplaceCDataEnd(Tail(value))

\* _escape_value: a CDATA section if the value has one of < > & " '.
EscapeValue(value) ==
    IF \E i \in 1..Len(value) : value[i] \in {"<", ">", "&", "\"", "'"}
    THEN <<"<", "!", "[", "C", "D", "A", "T", "A", "[">> \o ReplaceCDataEnd(value) \o <<"]", "]", ">">>
    ELSE value

LETTERS ==
    {"a", "b", "c", "d", "e", "f", "g", "h", "i", "j", "k", "l", "m", "n",
     "o", "p", "q", "r", "s", "t", "u", "v", "w", "x", "y", "z",
     "A", "B", "C", "D", "E", "F", "G", "H", "I", "J", "K", "L", "M", "N",
     "O", "P", "Q", "R", "S", "T", "U", "V", "W", "X", "Y", "Z"}

\* ord(c)
Ord(c) ==
    IF \E n \in 0..127 : Chr(n) = c
    THEN CHOOSE n \in 0..127 : Chr(n) = c
    ELSE CHOOSE n \in 128..1114111 : Chr(n) = c

InRange(n, lo, hi) == lo <= n /\ n <= hi

\* The first character of an XML name (_escape_tag, key[0]).
IsNameStartChar(c) ==
    \/ c \in {":", "_"} \cup LETTERS
    \/ LET n == Ord(c)
       IN \/ InRange(n, 192, 214) \/ InRange(n, 216, 246) \/ InRange(n, 248, 767)
          \/ InRange(n, 880, 893) \/ InRange(n, 895, 8191) \/ InRange(n, 8204, 8205)
          \/ InRange(n, 8304, 8591) \/ InRange(n, 11264, 12271)
          \/ InRange(n, 12289, 55295) \/ InRange(n, 63744, 64975)
          \/ InRange(n, 65008, 65533)

\* A character of an XML name after the first (_escape_tag, key[i]).
IsNameChar(c) ==
    \/ c \in {":", "_", "-", "."} \cup DIGITS \cup LETTERS
    \/ LET n == Ord(c)
       IN \/ n = 183
          \/ InRange(n, 192, 214) \/ InRange(n, 216, 246) \/ InRange(n, 248, 879)
          \/ InRange(n, 880, 893) \/ InRange(n, 895, 8191) \/ InRange(n, 8204, 8205)
          \/ InRange(n, 8255, 8256)
          \/ InRange(n, 8304, 8591) \/ InRange(n, 11264, 12271)
          \/ InRange(n, 12289, 55295) \/ InRange(n, 63744, 64975)
          \/ InRange(n, 65008, 65533)

\* _escape_tag: the key with every character a tag cannot have replaced by
\* an underscore; an underscore for the empty key.
EscapeTag(key) ==
    IF key = <<>> THEN <<"_">>
    ELSE [i \in 1..Len(key) |->
             IF i = 1
             THEN (IF IsNameStartChar(key[i]) THEN key[i] ELSE "_")
             ELSE (IF IsNameChar(key[i]) THEN key[i] ELSE "_")]

\* [i * "    " for i in range(lo, hi)]
RECURSIVE Blanks(_)
Blanks(n) == IF n = 0 THEN <<>> ELSE <<" ">> \o Blanks(n - 1)
TabsRange(lo, hi) == [i \in 1..(hi - lo) |-> Blanks(4 * (lo + i - 1))]

\* self._tabs after __init__.
InitTabs(formatted) ==
    IF formatted THEN TabsRange(0, TabsLen) ELSE [i \in 1..TabsLen |-> None]

\* The templates of __init__ applied to their arguments: with formatted, the
\* indentation before and a newline after; without, neither.
Line(formatted, spaces, text) ==
    IF formatted THEN spaces \o text \o <<"\n">> ELSE text

FmtStartTag(formatted, spaces, tag) ==
    Line(formatted, spaces, <<"<">> \o tag \o <<">">>)
FmtEndTag(formatted, spaces, tag) ==
    Line(formatted, spaces, <<"<", "/">> \o tag \o <<">">>)
FmtText(formatted, spaces, tag, value) ==
    Line(formatted, spaces,
         <<"<">> \o tag \o <<">">> \o value \o <<"<", "/">> \o tag \o <<">">>)
FmtEmpty(formatted, spaces, tag) ==
    Line(formatted, spaces, <<"<">> \o tag \o <<"/", ">">>)
FmtTypedText(formatted, spaces, tag, type, value) ==
    Line(formatted, spaces,
         <<"<">> \o tag \o <<" ", "t", "y", "p", "e", "=", "\"">> \o type \o <<"\"", ">">>
         \o value \o <<"<", "/">> \o tag \o <<">">>)
FmtTypedEmpty(formatted, spaces, tag, type) ==
    Line(formatted, spaces,
         <<"<">> \o tag \o <<" ", "t", "y", "p", "e", "=", "\"">> \o type \o <<"\"", "/", ">">>)

\* seq[i] of Python: the index counts from 0, from the end if negative.
PyIndexOk(seq, i) == -Len(seq) <= i /\ i < Len(seq)
PyIndex(seq, i) == IF i >= 0 THEN seq[i + 1] ELSE seq[Len(seq) + i + 1]

\* What JSONAsXML.__iter__ does of one event, up to its yield or after it:
\* the values of its locals and of self._tabs, the fragment it yields (one
\* at most), the exception it raises.
XmlRes(ss, ks, tc, tb, sp, fr, em) ==
    [states_stack |-> ss, keys_stack |-> ks, tab_count |-> tc, tabs |-> tb,
     spaces |-> sp, frags |-> fr, emsg |-> em]

\* BEGIN_OBJECT, BEGIN_ARRAY inside a container, up to the yield: the start
\* tag of the member or element.
XmlBeginTag(t, ss, ks, tc, tb, sp, formatted) ==
    LET ks1 == IF Last(ss) = "BEGIN_ARRAY"
               THEN Append(ks, LIST_ITEM_TAG) ELSE ks
    IN IF ks1 = <<>>
       THEN XmlRes(ss, ks, tc, tb, sp, <<>>, "IndexError")
       ELSE XmlRes(ss, ks1, tc, tb, sp,
                   <<FmtStartTag(formatted, sp, Last(ks1))>>, "")

\* Mutant for C37: the table of indentations is never extended.
XmlBegin_NoDouble(t, ss, ks, tc, tb, sp) ==
    LET tc1 == tc + 1
        tb1 == tb
    IN IF ~PyIndexOk(tb1, tc1)
       THEN XmlRes(ss, ks, tc1, tb1, sp, <<>>, "IndexError")
       ELSE XmlRes(Append(ss, t.kind), ks, tc1, tb1, PyIndex(tb1, tc1), <<>>, "")

\* BEGIN_OBJECT, BEGIN_ARRAY from "tab_count += 1" on (after the yield, if
\* there was one): one more indentation, the table doubled when full, the
\* kind of the container pushed.
XmlBegin(t, ss, ks, tc, tb, sp) ==
    LET tc1 == tc + 1
        lt == Len(tb)
        tb1 == IF tc1 = lt
               THEN (IF tb[1] = None THEN tb \o tb
                     ELSE tb \o TabsRange(lt, 2 * lt))
               ELSE tb
    IN IF ~PyIndexOk(tb1, tc1)
       THEN XmlRes(ss, ks, tc1, tb1, sp, <<>>, "IndexError")
       ELSE XmlRes(Append(ss, t.kind), ks, tc1, tb1, PyIndex(tb1, tc1), <<>>, "")

\* END_OBJECT, END_ARRAY: the end tag of the member or element, none at the
\* top level.
XmlEndTag(t, ss, ks, tc, tb, sp, formatted) ==
    IF ss = <<>>
    THEN XmlRes(ss, ks, tc, tb, sp, <<>>, "IndexError")
    ELSE LET ss1 == SubSeq(ss, 1, Len(ss) - 1)
         IN IF ss1 = <<>>
            THEN XmlRes(ss1, ks, tc, tb, sp, <<>>, "")
            ELSE IF ks = <<>>
            THEN XmlRes(ss1, ks, tc, tb, sp, <<>>, "IndexError")
            ELSE IF ~PyIndexOk(tb, tc - 1)
            THEN XmlRes(ss1, SubSeq(ks, 1, Len(ks) - 1), tc - 1, tb, sp, <<>>,
                        "IndexError")
            ELSE XmlRes(ss1, SubSeq(ks, 1, Len(ks) - 1), tc - 1, tb,
                        PyIndex(tb, tc - 1),
                        <<FmtEndTag(formatted, PyIndex(tb, tc - 1), Last(ks))>>,
                        "")

\* Mutant for C36: the key of a member is not pushed.
XmlKey_NoPush(t, ss, ks, tc, tb, sp) ==
    IF ss = <<>>
    THEN XmlRes(ss, ks, tc, tb, sp, <<>>, "IndexError")
    ELSE IF Last(ss) # "BEGIN_OBJECT"
    THEN XmlRes(ss, ks, tc, tb, sp, <<>>, "AssertionError")
    ELSE XmlRes(ss, ks, tc, tb, sp, <<>>, "")

\* KEY: the escaped key is the tag of the member.
XmlKey(t, ss, ks, tc, tb, sp) ==
    IF ss = <<>>
    THEN XmlRes(ss, ks, tc, tb, sp, <<>>, "IndexError")
    ELSE IF Last(ss) # "BEGIN_OBJECT"
    THEN XmlRes(ss, ks, tc, tb, sp, <<>>, "AssertionError")
    ELSE XmlRes(ss, Append(ks, EscapeTag(t.lit)), tc, tb, sp, <<>>, "")

\* Any other token is a value: one fragment with the tag of the member or
\* element around the text of the value.
XmlValue(t, ss, ks, tc, tb, sp, typed, formatted) ==
    IF ss = <<>>
    THEN XmlRes(ss, ks, tc, tb, sp, <<>>, "IndexError")
    ELSE LET ks1 == IF Last(ss) = "BEGIN_ARRAY"
                    THEN Append(ks, LIST_ITEM_TAG) ELSE ks
         IN IF ks1 = <<>>
            THEN XmlRes(ss, ks, tc, tb, sp, <<>>, "IndexError")
            ELSE
            LET cur_key == Last(ks1)
                ks2 == SubSeq(ks1, 1, Len(ks1) - 1)
                Res(frag) == XmlRes(ss, ks2, tc, tb, sp, <<frag>>, "")
            IN CASE t.kind = "STRING" ->
                      IF typed
                      THEN (IF t.lit # <<>>
                            THEN Res(FmtTypedText(formatted, sp, cur_key,
                                                  <<"s", "t", "r", "i", "n", "g">>, EscapeValue(t.lit)))
                            ELSE Res(FmtTypedEmpty(formatted, sp, cur_key, <<"s", "t", "r", "i", "n", "g">>)))
                      ELSE (IF t.lit # <<>>
                            THEN Res(FmtText(formatted, sp, cur_key, EscapeValue(t.lit)))
                            ELSE Res(FmtEmpty(formatted, sp, cur_key)))
                 [] t.kind = "BOOLEAN_VALUE" ->
                      LET value == IF t.lit = PyTrue THEN <<"t", "r", "u", "e">> ELSE <<"f", "a", "l", "s", "e">>
                      IN IF typed
                         THEN Res(FmtTypedText(formatted, sp, cur_key, <<"b", "o", "o", "l", "e", "a", "n">>, value))
                         ELSE Res(FmtText(formatted, sp, cur_key, value))
                 [] t.kind = "NULL_VALUE" ->
                      IF typed
                      THEN Res(FmtTypedText(formatted, sp, cur_key, <<"n", "u", "l", "l">>, <<"n", "u", "l", "l">>))
                      ELSE Res(FmtText(formatted, sp, cur_key, <<"n", "u", "l", "l">>))
                 [] t.kind = "INT_VALUE" ->
                      IF typed
                      THEN Res(FmtTypedText(formatted, sp, cur_key, <<"i", "n", "t">>, t.lit))
                      ELSE Res(FmtText(formatted, sp, cur_key, t.lit))
                 [] t.kind = "FLOAT_VALUE" ->
                      IF typed
                      THEN Res(FmtTypedText(formatted, sp, cur_key, <<"f", "l", "o", "a", "t">>, t.lit))
                      ELSE Res(FmtText(formatted, sp, cur_key, t.lit))
                 [] OTHER ->
                      \* a separator, which has no text
                      IF typed
                      THEN XmlRes(ss, ks2, tc, tb, sp, <<>>, "TypeError")
                      ELSE Res(FmtText(formatted, sp, cur_key, <<"N", "o", "n", "e">>))

\* The body of the loop of JSONAsXML.__iter__ for the event t, up to its
\* yield, or to its end if it yields nothing.
XmlToken(t, ss, ks, tc, tb, sp, typed, formatted) ==
    CASE t.kind \in BEGINS ->
            IF ss # <<>> THEN XmlBeginTag(t, ss, ks, tc, tb, sp, formatted)
            ELSE XmlBegin(t, ss, ks, tc, tb, sp)
      [] t.kind \in ENDS -> XmlEndTag(t, ss, ks, tc, tb, sp, formatted)
      [] t.kind = "KEY" -> XmlKey(t, ss, ks, tc, tb, sp)
      [] OTHER -> XmlValue(t, ss, ks, tc, tb, sp, typed, formatted)

\* The body of the loop for the event t after its yield: the rest of the
\* branch of BEGIN_OBJECT and BEGIN_ARRAY; nothing follows the other yields.
XmlAfterYield(t, ss, ks, tc, tb, sp) ==
    IF t.kind \in BEGINS THEN XmlBegin(t, ss, ks, tc, tb, sp)
    ELSE XmlRes(ss, ks, tc, tb, sp, <<>>, "")

VARIABLES
    \* the source
    pending,    \* characters of the current lexeme not read yet
    nlex,       \* number of lexemes the document has so far
    consumed,   \* history: every character read from the source, in order
    \* JSONLexer
    line, column,                          \* self.line, self.column
    state, sub_state, buf, sub_buf, unget, \* locals of JSONLexer.__iter__
    next_char,  \* local of JSONLexer.__iter__: "" at the end of the source
    lexpc,      \* where the generator is: "loop" | "yield" | "yield_number" |
                \* "yield_string" | "yield_eof" | "returned"
    tok,        \* t of JSONParser.__iter__ while its body runs, NoTok once
                \* the parser asks for the next token
    toks,       \* history: every token the lexer yielded
    \* JSONParser
    pstate, states,  \* locals state and states of JSONParser.__iter__
    ppc,        \* where the generator is: "pull" (in its loop, no event
                \* yielded for t so far) | "yield" | "done"
    events,     \* history: every event the parser yielded
    depths,     \* history: len(states) once the body has run to its end for
                \* the token of the i-th event
    err,        \* the exception raised, NoErr if none
    \* JSONAsXML
    typed, formatted,  \* the arguments typed and formatted of __init__
    tabs,              \* self._tabs
    tab_count, spaces, states_stack, keys_stack,  \* locals of __iter__
    rpc,        \* where the generator is: "absent" (no renderer) | "start" |
                \* "header" (at the yield of the header) | "root" (at the
                \* yield of the root start tag) | "pull" (in its loop) |
                \* "yield" (at a yield of the loop) | "end" (at the yield of
                \* the root end tag) | "done"
    out,        \* history: every fragment the renderer yielded
    rendered,   \* history: the number of events the renderer was given
    \* json2xml
    jpc,        \* "next" (asks the renderer for a line) | "write" (has one)
    dest,       \* what was written to dest, a fragment per write
    dest_encoding  \* the encoding of dest

lexvars == <<line, column, state, sub_state, buf, sub_buf, unget, next_char,
             lexpc>>
srcvars == <<pending, nlex, consumed>>
parvars == <<pstate, states, ppc, events, depths>>
vars == <<pending, nlex, consumed, line, column, state, sub_state, buf,
          sub_buf, unget, next_char, lexpc, tok, toks, pstate, states, ppc,
          events, depths, err, typed, formatted, tabs, tab_count,
          spaces, states_stack, keys_stack, rpc, out, rendered, jpc, dest,
          dest_encoding>>
xmlvars == <<typed, formatted, tabs, tab_count, spaces, states_stack,
             keys_stack, rpc, out, rendered, jpc, dest, dest_encoding>>

\* The consumer of the parser asked for the next event: there is no renderer
\* over the parser, or the renderer is in its loop with every event handled.
Pulled == rpc = "absent" \/ (rpc = "pull" /\ rendered = Len(events))

(***************************************************************************)
(* The initial state: a fresh JSONParser over a fresh JSONLexer over an    *)
(* unread source.                                                          *)
(***************************************************************************)
Init ==
    /\ pending = <<>> /\ nlex = 0 /\ consumed = <<>>
    /\ line = 0 /\ column = 0
    /\ state = "NONE" /\ sub_state = "None" /\ buf = None /\ sub_buf = None
    /\ unget = NoChar /\ next_char = NoChar /\ lexpc = "loop"
    /\ tok = NoTok /\ toks = <<>>
    /\ pstate = "NONE" /\ states = <<>> /\ ppc = "pull"
    /\ events = <<>> /\ depths = <<>>
    /\ err = NoErr
    /\ rpc = "absent" /\ typed = FALSE /\ formatted = FALSE /\ tabs = <<>>
    /\ tab_count = 0 /\ spaces = <<>> /\ states_stack = <<>>
    /\ keys_stack = <<>> /\ out = <<>> /\ rendered = 0
    /\ jpc = "next" /\ dest = <<>> /\ dest_encoding = NoEncoding

(***************************************************************************)
(* The source.  self._source.read(k) gives the next k characters, fewer at *)
(* the end of the source: the unread characters of the current lexeme,     *)
(* then those of the next lexemes of the document, which are decided when  *)
(* they are read.  A result is the text read and what the source is left   *)
(* with.                                                                   *)
(***************************************************************************)
ReadRes(got, p, n) == [got |-> got, pending |-> p, nlex |-> n]

RECURSIVE Read(_, _, _, _)
Read(Lx, p, n, k) ==
    IF k = 0 THEN {ReadRes(<<>>, p, n)}
    ELSE IF p # <<>>
    THEN {ReadRes(<<Head(p)>> \o r.got, r.pending, r.nlex) :
             r \in Read(Lx, Tail(p), n, k - 1)}
    ELSE {ReadRes(<<>>, <<>>, n)}
         \cup UNION {Read(Lx, l, n + 1, k) :
                        l \in (IF n < MaxLexemes THEN Lx ELSE {})}

\* Mutant for C32: the loop reads the source whatever was pushed back.
LexStep_ReadsFirst(Lx) ==
    /\ Pulled
    /\ err.kind = "none" /\ lexpc = "loop" /\ tok = NoTok /\ ppc = "pull"
    /\ \E r1 \in Read(Lx, pending, nlex, 1) :
         LET c == IF r1.got = <<>> THEN "" ELSE r1.got[1]
             k == IF c # "" /\ c # "\n" /\ state = "NONE"
                  THEN SuffixLen(c) ELSE 0
         IN \E r2 \in Read(Lx, r1.pending, r1.nlex, k) :
              LET line1 == IF c = "\n" THEN line + 1 ELSE line
                  column1 == IF c = "" THEN column
                             ELSE IF c = "\n" THEN 0 ELSE column + 1
                  r == IF c = "" THEN LexEof(state, sub_state, buf, sub_buf)
                       ELSE IF c = "\n"
                            THEN LexRes(state, sub_state, buf, sub_buf, NoChar, NoTok, "", <<>>)
                            ELSE LexChar(state, sub_state, buf, sub_buf, c, r2.got)
              IN /\ pending' = r2.pending
                 /\ nlex' = r2.nlex
                 /\ consumed' = consumed \o r1.got \o r2.got
                 /\ next_char' = c
                 /\ line' = line1 /\ column' = column1
                 /\ state' = r.state /\ sub_state' = r.sub_state
                 /\ buf' = r.buf /\ sub_buf' = r.sub_buf /\ unget' = r.unget
                 /\ lexpc' = r.pc
                 /\ tok' = r.tok
                 /\ toks' = IF r.tok # NoTok THEN Append(toks, r.tok) ELSE toks
                 /\ err' = IF r.emsg = "" THEN NoErr
                           ELSE IF r.emsg = "ValueError"
                                THEN Error("ValueError", r.emsg, NoTok, r.etext, line1, column1)
                                ELSE LexError(r.emsg, r.etext, line1, column1)
                 /\ UNCHANGED <<parvars, xmlvars>>

(***************************************************************************)
(* One iteration of the loop of JSONLexer.__iter__, over documents made    *)
(* of the lexemes Lx, up to its yield or, if it does not yield, to its     *)
(* end: next_char is the pushed back character or read(1); the position is *)
(* updated; the character is handled in the current state.  The parser has *)
(* asked for the next token and the generator is at the head of its loop.  *)
(***************************************************************************)
LexStep(Lx) ==
    /\ Pulled
    /\ err.kind = "none" /\ lexpc = "loop" /\ tok = NoTok /\ ppc = "pull"
    /\ \E r1 \in (IF unget # NoChar THEN {ReadRes(<<unget>>, pending, nlex)}
                                    ELSE Read(Lx, pending, nlex, 1)) :
         LET c == IF r1.got = <<>> THEN "" ELSE r1.got[1]
             k == IF c # "" /\ c # "\n" /\ state = "NONE"
                  THEN SuffixLen(c) ELSE 0
         IN \E r2 \in Read(Lx, r1.pending, r1.nlex, k) :
              LET line1 == IF c = "\n" THEN line + 1 ELSE line
                  column1 == IF c = "" THEN column
                             ELSE IF c = "\n" THEN 0 ELSE column + 1
                  r == IF c = "" THEN LexEof(state, sub_state, buf, sub_buf)
                       ELSE IF c = "\n"
                            THEN LexRes(state, sub_state, buf, sub_buf, NoChar, NoTok, "", <<>>)
                            ELSE LexChar(state, sub_state, buf, sub_buf, c, r2.got)
              IN /\ pending' = r2.pending
                 /\ nlex' = r2.nlex
                 /\ consumed' = consumed
                                \o (IF unget # NoChar THEN <<>> ELSE r1.got)
                                \o r2.got
                 /\ next_char' = c
                 /\ line' = line1 /\ column' = column1
                 /\ state' = r.state /\ sub_state' = r.sub_state
                 /\ buf' = r.buf /\ sub_buf' = r.sub_buf /\ unget' = r.unget
                 /\ lexpc' = r.pc
                 /\ tok' = r.tok
                 /\ toks' = IF r.tok # NoTok THEN Append(toks, r.tok) ELSE toks
                 /\ err' = IF r.emsg = "" THEN NoErr
                           ELSE IF r.emsg = "ValueError"
                                THEN Error("ValueError", r.emsg, NoTok, r.etext, line1, column1)
                                ELSE LexError(r.emsg, r.etext, line1, column1)
                 /\ UNCHANGED <<parvars, xmlvars>>

\* The parser asks for the next token and the generator of the lexer is at
\* a yield: it goes on from there to the head of its loop, or returns.
LexResume ==
    /\ Pulled
    /\ err.kind = "none" /\ tok = NoTok /\ ppc = "pull"
    /\ lexpc \in {"yield", "yield_number", "yield_string", "yield_eof"}
    /\ LET r == LexAfterYield(lexpc, state, sub_state, buf, sub_buf, next_char)
       IN /\ state' = r.state /\ sub_state' = r.sub_state
          /\ buf' = r.buf /\ sub_buf' = r.sub_buf /\ unget' = r.unget
          /\ lexpc' = r.pc
    /\ UNCHANGED <<srcvars, line, column, next_char, tok, toks, parvars, err,
                   xmlvars>>

(***************************************************************************)
(* JSONParser.__iter__: the body of "for t in self._lex_json" for the      *)
(* token the lexer yielded, up to its yield or, if it yields no event, to  *)
(* its end.  In state NONE the body yields t whatever it is.               *)
(***************************************************************************)
ParseToken ==
    /\ Pulled
    /\ err.kind = "none" /\ ppc = "pull" /\ tok # NoTok
    /\ UNCHANGED <<srcvars, lexvars, toks, xmlvars>>
    /\ LET r == IF pstate = "NONE"
                THEN ParRes(pstate, states, tok, "", <<>>)
                ELSE ParseTok(pstate, states, tok)
       IN IF r.emit # NoTok
          THEN /\ events' = Append(events, r.emit)
               /\ ppc' = "yield"
               /\ UNCHANGED <<tok, pstate, states, depths, err>>
          ELSE /\ pstate' = r.state /\ states' = r.states
               /\ err' = IF r.emsg = "" THEN NoErr
                         ELSE ParseError(r.emsg, tok, r.etext, line, column)
               /\ tok' = NoTok
               /\ UNCHANGED <<ppc, events, depths>>

\* The consumer asks for the next event and the generator of the parser is
\* at a yield: the body goes on to its end.  In state NONE the token opens a
\* container, is a scalar, or is refused; in the other states the state is
\* assigned, the stack pushed or popped.
ParseResume ==
    /\ Pulled
    /\ err.kind = "none" /\ ppc = "yield"
    /\ LET r == IF pstate = "NONE" THEN ParseNone(states, tok)
                ELSE ParseTok(pstate, states, tok)
       IN /\ pstate' = r.state /\ states' = r.states
          /\ depths' = Append(depths, Len(r.states))
          /\ err' = IF r.emsg = "" THEN NoErr
                    ELSE IF r.emsg = "IndexError"
                         THEN Error("IndexError", r.emsg, tok, r.etext, line, column)
                         ELSE ParseError(r.emsg, tok, r.etext, line, column)
    /\ tok' = NoTok /\ ppc' = "pull"
    /\ UNCHANGED <<srcvars, lexvars, toks, events, xmlvars>>

\* Mutant for C3: the parser ends without the check of its state.
ParseEnd_NoCheck ==
    /\ Pulled
    /\ err.kind = "none" /\ ppc = "pull" /\ tok = NoTok /\ lexpc = "returned"
    /\ ppc' = "done"
    /\ UNCHANGED <<srcvars, lexvars, tok, toks, pstate, states, events, depths,
                   err, xmlvars>>

\* After the loop: the lexer returned, the parser checks its state and ends.
ParseEnd ==
    /\ Pulled
    /\ err.kind = "none" /\ ppc = "pull" /\ tok = NoTok /\ lexpc = "returned"
    /\ err' = IF pstate # "NONE"
              THEN ParseError("End of file (current state = '{}')", NoTok,
                              <<"ParserState." \o pstate>>, line, column)
              ELSE NoErr
    /\ ppc' = "done"
    /\ UNCHANGED <<srcvars, lexvars, tok, toks, pstate, states, events, depths,
                   xmlvars>>

Next == LexStep(ParserLexemes) \/ LexResume \/ ParseToken \/ ParseResume \/ ParseEnd

Spec == Init /\ [][Next]_vars

(***************************************************************************)
(* The same program over documents that exercise the lexer: numbers,       *)
(* escapes in strings, unicode escapes.  The lexemes are pieces of text,   *)
(* not tokens: the lexer still reads them one character at a time, and a   *)
(* piece can end in the middle of a number, of a string or of an escape.   *)
(***************************************************************************)
NumberLexemes ==
    { <<"-">>, <<"0">>, <<"1">>, <<".">>, <<"e">>, <<"E", "-">>, <<",">>,
      <<"[">> }

NextNumber == LexStep(NumberLexemes) \/ LexResume \/ ParseToken \/ ParseResume \/ ParseEnd

SpecNumber == Init /\ [][NextNumber]_vars

EscapeLexemes ==
    { <<"\"">>, <<"\\">>, <<"n">>, <<"x">>, <<"\n">>,
      <<"\\", "t", "\\", "r", "\\", "n", "\\", "b", "\\", "f">>,
      <<"\\", "\"", "\\", "\\">>,
      <<"\\", "u", "0", "0", "6", "2">> }

NextEscape == LexStep(EscapeLexemes) \/ LexResume \/ ParseToken \/ ParseResume \/ ParseEnd

SpecEscape == Init /\ [][NextEscape]_vars

UnicodeLexemes ==
    { <<"\"">>, <<"\\", "u">>, <<"0", "0">>, <<"6", "2">>, <<"+", "0">>,
      <<"z", "\\">>, <<"\n">>, <<Chr(11), "0", "6", Chr(1635)>>,
      <<"\\", "u", "d", "8", "3", "c", "\\", "u", "d", "f", "0", "9">> }

NextUnicode == LexStep(UnicodeLexemes) \/ LexResume \/ ParseToken \/ ParseResume \/ ParseEnd

SpecUnicode == Init /\ [][NextUnicode]_vars

\* The lexer over numbers broken by a newline, a blank or a letter.
BreakLexemes ==
    { <<"-">>, <<"0">>, <<"1">>, <<".">>, <<"e">>, <<"\n">>, <<" ">>, <<"x">> }

NextBreak == LexStep(BreakLexemes) \/ LexResume \/ ParseToken \/ ParseResume \/ ParseEnd

SpecBreak == Init /\ [][NextBreak]_vars

\* The lexer over pieces of the literals true, false and null, whole and
\* cut short, and a character that starts no token.
LiteralLexemes ==
    { <<"t">>, <<"r", "u", "e">>, <<"f">>, <<"a", "l", "s", "e">>,
      <<"n", "u", "l", "l">>, <<"n", "u">>, <<"x">>, <<" ">>, <<"1">> }

NextLiteral == LexStep(LiteralLexemes) \/ LexResume \/ ParseToken \/ ParseResume \/ ParseEnd

SpecLiteral == Init /\ [][NextLiteral]_vars

\* The lexer over a literal, a number, a blank, the quote of a string that
\* is not closed and a character that starts no token, with the scheduling
\* of a consumer that iterates to the end: it asks for the next event as
\* long as there is one.
FairLexemes ==
    { <<"t">>, <<"r", "u", "e">>, <<"x">>, <<" ">>, <<"1">>, <<"\"">> }

NextFair == LexStep(FairLexemes) \/ LexResume \/ ParseToken \/ ParseResume \/ ParseEnd

SpecFair == Init /\ [][NextFair]_vars /\ WF_vars(NextFair)

\* The characters of ASCII.
AsciiChars == {Chr(n) : n \in 0..127}

\* The characters of the codes 128 to 255, and the surrogates.
Latin1Chars == {Chr(n) : n \in 128..255}
Surrogates == {Chr(n) : n \in 55296..57343}

\* dest.write(line) raises no UnicodeError for the character c: the encoding
\* of dest has a code for it (utf-8 has none for a surrogate).
Encodes(enc, c) ==
    IF c \in AsciiChars \/ enc = NoEncoding THEN TRUE
    ELSE IF enc = "utf-8" THEN c \notin Surrogates
    ELSE IF enc = "latin-1" THEN c \in Latin1Chars
    ELSE FALSE

\* The digits of n in base 16 on w places, in lower case.
HexChars ==
    <<"0", "1", "2", "3", "4", "5", "6", "7", "8", "9", "a", "b", "c", "d",
      "e", "f">>

RECURSIVE HexText(_, _)
HexText(n, w) ==
    IF w = 0 THEN <<>>
    ELSE HexText(n \div 16, w - 1) \o <<HexChars[(n % 16) + 1]>>

\* What ascii() writes for the character c between the quotes quote.
AsciiChar(c, quote) ==
    IF c = quote \/ c = "\\" THEN <<"\\", c>>
    ELSE IF c = "\t" THEN <<"\\", "t">>
    ELSE IF c = "\n" THEN <<"\\", "n">>
    ELSE IF c = "\r" THEN <<"\\", "r">>
    ELSE LET n == Ord(c)
         IN IF n < 32 \/ n = 127 THEN <<"\\", "x">> \o HexText(n, 2)
            ELSE IF n < 127 THEN <<c>>
            ELSE IF n < 256 THEN <<"\\", "x">> \o HexText(n, 2)
            ELSE IF n < 65536 THEN <<"\\", "u">> \o HexText(n, 4)
            ELSE <<"\\", "U">> \o HexText(n, 8)

RECURSIVE AsciiBody(_, _)
AsciiBody(s, quote) ==
    IF s = <<>> THEN <<>>
    ELSE AsciiChar(Head(s), quote) \o AsciiBody(Tail(s), quote)

\* ascii(line): the literal of the string, between single quotes unless it
\* holds single quotes and no double quote, with escapes for the quote, the
\* backslash, the control characters and every character beyond ASCII.
PyAscii(s) ==
    LET has(q) == \E i \in 1..Len(s) : s[i] = q
        quote == IF has("'") /\ ~has("\"") THEN "\"" ELSE "'"
    IN <<quote>> \o AsciiBody(s, quote) \o <<quote>>

\* dest.write(line), and dest.write(ascii(line)) when it raises
\* UnicodeError: dest cannot encode a character of the line.
DestWrite(d, enc, ln) ==
    IF \A i \in 1..Len(ln) : Encodes(enc, ln[i])
    THEN Append(d, ln)
    ELSE Append(d, PyAscii(ln))

(***************************************************************************)
(* JSONAsXML over the parser over the lexer, and json2xml over JSONAsXML.  *)
(* The renderer is a generator: it yields the header, the root start tag,  *)
(* the fragments of each event it pulls from the parser, and the root end  *)
(* tag once the parser ended.  It stays at each yield until json2xml, which *)
(* writes the fragment to dest, asks for the next one.  An exception of    *)
(* the parser or the lexer goes through the renderer and json2xml.         *)
(***************************************************************************)
InitXML ==
    /\ pending = <<>> /\ nlex = 0 /\ consumed = <<>>
    /\ line = 0 /\ column = 0
    /\ state = "NONE" /\ sub_state = "None" /\ buf = None /\ sub_buf = None
    /\ unget = NoChar /\ next_char = NoChar /\ lexpc = "loop"
    /\ tok = NoTok /\ toks = <<>>
    /\ pstate = "NONE" /\ states = <<>> /\ ppc = "pull"
    /\ events = <<>> /\ depths = <<>>
    /\ err = NoErr
    /\ typed \in BOOLEAN /\ formatted \in BOOLEAN
    /\ tabs = InitTabs(formatted)
    /\ rpc = "start"
    /\ tab_count = 0 /\ spaces = <<>> /\ states_stack = <<>>
    /\ keys_stack = <<>> /\ out = <<>> /\ rendered = 0
    /\ jpc = "next" /\ dest = <<>> /\ dest_encoding \in DestEncodings

\* The same with dest a file of encoding utf-8, as the command line opens
\* outfile.
InitXMLUtf8 == InitXML /\ dest_encoding = "utf-8"

\* yield self._header
XmlHeader ==
    /\ rpc = "start" /\ jpc = "next"
    /\ out' = Append(out, XML_HEADER \o <<"\n">>)
    /\ rpc' = "header" /\ jpc' = "write"
    /\ UNCHANGED <<srcvars, lexvars, tok, toks, parvars, err, typed,
                   dest_encoding,
                   formatted, tabs, tab_count, spaces, states_stack,
                   keys_stack, rendered, dest>>

\* From the yield of the header to the yield of the root start tag.
XmlRoot ==
    /\ rpc = "header" /\ jpc = "next"
    /\ tab_count' = 0 /\ spaces' = <<>>
    /\ out' = Append(out, FmtStartTag(formatted, <<>>, ROOT_TAG))
    /\ rpc' = "root" /\ jpc' = "write"
    /\ UNCHANGED <<srcvars, lexvars, tok, toks, parvars, err, typed,
                   dest_encoding,
                   formatted, tabs, states_stack, keys_stack, rendered, dest>>

\* The body of "for line in JSONAsXML(source, **kwargs)": the fragment the
\* renderer yielded is written to dest, as ascii() writes it if dest cannot
\* encode it.
Json2XmlWrite ==
    /\ jpc = "write"
    /\ dest' = DestWrite(dest, dest_encoding, Last(out))
    /\ jpc' = "next"
    /\ UNCHANGED <<srcvars, lexvars, tok, toks, parvars, err, typed,
                   dest_encoding,
                   formatted, tabs, tab_count, spaces, states_stack,
                   keys_stack, rpc, out, rendered>>

\* The body of "for t in JSONParser(self._source)" for the event the parser
\* yielded, up to its yield or, if it yields nothing, to its end.
XmlEvent ==
    /\ rpc = "pull" /\ err.kind = "none" /\ rendered < Len(events)
    /\ LET t == events[rendered + 1]
           r == XmlToken(t, states_stack, keys_stack, tab_count, tabs, spaces,
                         typed, formatted)
       IN /\ states_stack' = r.states_stack /\ keys_stack' = r.keys_stack
          /\ tab_count' = r.tab_count /\ tabs' = r.tabs /\ spaces' = r.spaces
          /\ out' = out \o r.frags
          /\ err' = IF r.emsg = "" THEN NoErr
                    ELSE Error(r.emsg, r.emsg, t, <<>>, line, column)
          /\ rpc' = IF r.frags # <<>> THEN "yield" ELSE "pull"
          /\ jpc' = IF r.frags # <<>> THEN "write" ELSE "next"
    /\ rendered' = rendered + 1
    /\ UNCHANGED <<srcvars, lexvars, tok, toks, parvars, typed,
                   dest_encoding,
                   formatted, dest>>

\* json2xml asks for the next fragment and the generator of the renderer is
\* at a yield: after the root start tag the two stacks are set, after a
\* fragment of the loop the body goes on to its end for the same event, and
\* after the root end tag the generator ends.
XmlResume ==
    /\ rpc \in {"root", "yield", "end"} /\ jpc = "next" /\ err.kind = "none"
    /\ LET r == CASE rpc = "root" ->
                       XmlRes(<<>>, <<>>, tab_count, tabs, spaces, <<>>, "")
                  [] rpc = "yield" ->
                       XmlAfterYield(events[rendered], states_stack, keys_stack,
                                     tab_count, tabs, spaces)
                  [] OTHER ->
                       XmlRes(states_stack, keys_stack, tab_count, tabs,
                              spaces, <<>>, "")
       IN /\ states_stack' = r.states_stack /\ keys_stack' = r.keys_stack
          /\ tab_count' = r.tab_count /\ tabs' = r.tabs /\ spaces' = r.spaces
          /\ err' = IF r.emsg = "" THEN NoErr
                    ELSE Error(r.emsg, r.emsg, events[rendered], <<>>, line, column)
    /\ rpc' = IF rpc = "end" THEN "done" ELSE "pull"
    /\ UNCHANGED <<srcvars, lexvars, tok, toks, parvars, typed,
                   dest_encoding,
                   formatted, out, rendered, jpc, dest>>

\* After the loop: the parser ended without an exception, the renderer
\* yields the root end tag.
XmlEnd ==
    /\ rpc = "pull" /\ err.kind = "none" /\ ppc = "done"
    /\ rendered = Len(events)
    /\ out' = Append(out, FmtEndTag(formatted, <<>>, ROOT_TAG))
    /\ rpc' = "end" /\ jpc' = "write"
    /\ UNCHANGED <<srcvars, lexvars, tok, toks, parvars, err, typed,
                   dest_encoding,
                   formatted, tabs, tab_count, spaces, states_stack,
                   keys_stack, rendered, dest>>

XmlLexemes ==
    { <<"[">>, <<"]">>, <<"{">>, <<"}">>, <<",">>, <<"1">>,
      <<"\"", "a", "\"", ":">>, <<"\"", "<", "\"">>, <<"x">> }

NextXML ==
    \/ LexStep(XmlLexemes) \/ LexResume \/ ParseToken \/ ParseResume \/ ParseEnd
    \/ XmlHeader \/ XmlRoot \/ XmlEvent \/ XmlResume \/ XmlEnd \/ Json2XmlWrite

SpecXML == InitXMLUtf8 /\ [][NextXML]_vars

\* The renderer over documents nested deeper than the table of indentations
\* is long at first.
TabLexemes ==
    { <<"[", "[", "[", "[", "[">>, <<"]", "]", "]", "]", "]">>,
      <<"[">>, <<"]">>, <<"1">>, <<",">> }

NextTabs ==
    \/ LexStep(TabLexemes) \/ LexResume \/ ParseToken \/ ParseResume \/ ParseEnd
    \/ XmlHeader \/ XmlRoot \/ XmlEvent \/ XmlResume \/ XmlEnd \/ Json2XmlWrite

SpecTabs == InitXMLUtf8 /\ [][NextTabs]_vars

\* json2xml over documents of strings that some encodings of dest have no
\* code for (a surrogate written as an escape, a letter beyond ASCII next
\* to a quote), for every encoding of dest.
DestLexemes ==
    { <<"[">>, <<"]">>, <<",">>, <<"x">>,
      <<"\"", "\\", "u", "d", "8", "3", "c", "\"">>,
      <<"\"", Chr(233), "'", "\"">> }

NextDest ==
    \/ LexStep(DestLexemes) \/ LexResume \/ ParseToken \/ ParseResume \/ ParseEnd
    \/ XmlHeader \/ XmlRoot \/ XmlEvent \/ XmlResume \/ XmlEnd \/ Json2XmlWrite

SpecDest == InitXML /\ [][NextDest]_vars

(***************************************************************************)
(* Notions the properties are stated with.  They are defined on the        *)
(* histories (toks, events, depths, consumed), not on the parser's state.  *)
(***************************************************************************)
\* RFC 8259 on tokens: ValueEnd(ts, i) is the index of the last token of the
\* value that starts at ts[i], 0 if no value starts there.
RECURSIVE ValueEnd(_, _), ElementsEnd(_, _), MembersEnd(_, _)
ValueEnd(ts, i) ==
    IF i > Len(ts) THEN 0
    ELSE IF ts[i].kind \in SCALARS THEN i
    ELSE IF ts[i].kind = "BEGIN_ARRAY"
         THEN IF i + 1 <= Len(ts) /\ ts[i + 1].kind = "END_ARRAY" THEN i + 1
              ELSE ElementsEnd(ts, i + 1)
    ELSE IF ts[i].kind = "BEGIN_OBJECT"
         THEN IF i + 1 <= Len(ts) /\ ts[i + 1].kind = "END_OBJECT" THEN i + 1
              ELSE MembersEnd(ts, i + 1)
    ELSE 0

\* value *( "," value ) "]" from ts[i] on: the index of the "]", or 0.
ElementsEnd(ts, i) ==
    LET e == ValueEnd(ts, i)
    IN IF e = 0 \/ e + 1 > Len(ts) THEN 0
       ELSE IF ts[e + 1].kind = "END_ARRAY" THEN e + 1
       ELSE IF ts[e + 1].kind = "VALUE_SEPARATOR" THEN ElementsEnd(ts, e + 2)
       ELSE 0

\* string ":" value *( "," string ":" value ) "}" from ts[i] on: the index
\* of the "}", or 0.
MembersEnd(ts, i) ==
    IF i + 1 > Len(ts) \/ ts[i].kind # "STRING" \/ ts[i + 1].kind # "NAME_SEPARATOR"
    THEN 0
    ELSE LET e == ValueEnd(ts, i + 2)
         IN IF e = 0 \/ e + 1 > Len(ts) THEN 0
            ELSE IF ts[e + 1].kind = "END_OBJECT" THEN e + 1
            ELSE IF ts[e + 1].kind = "VALUE_SEPARATOR" THEN MembersEnd(ts, e + 2)
            ELSE 0

\* The tokens are those of one JSON document: exactly one value.
IsValidDocument(ts) == ts # <<>> /\ ValueEnd(ts, 1) = Len(ts)

\* The containers left open by a sequence of events, innermost last, or
\* <<"unbalanced">> once an END_* closes nothing or the wrong kind.
RECURSIVE OpenAfter(_)
OpenAfter(evs) ==
    IF evs = <<>> THEN <<>>
    ELSE LET open == OpenAfter(SubSeq(evs, 1, Len(evs) - 1))
             k == Last(evs).kind
         IN IF open = <<"unbalanced">> THEN open
            ELSE IF k = "BEGIN_ARRAY" THEN Append(open, "array")
            ELSE IF k = "BEGIN_OBJECT" THEN Append(open, "object")
            ELSE IF k \in ENDS
                 THEN IF open # <<>> /\ Last(open) = (IF k = "END_ARRAY" THEN "array" ELSE "object")
                      THEN SubSeq(open, 1, Len(open) - 1)
                      ELSE <<"unbalanced">>
            ELSE open

CountKinds(evs, kinds) == Cardinality({i \in 1..Len(evs) : evs[i].kind \in kinds})

\* The parser ended without raising.
Accepted == ppc = "done" /\ err = NoErr

\* The token sequence of the lexer is complete and every token is handled.
TokensEnded == lexpc = "returned" /\ tok = NoTok /\ ppc = "done"

(***************************************************************************)
(* C1.  For every valid JSON document the events are balanced and properly *)
(* nested: every BEGIN_* is closed by the END_* of its kind in LIFO order, *)
(* the begin and end counts are equal at the end, and the depth of the     *)
(* context stack is zero after the last event and after no earlier one.    *)
(* A valid document is a token sequence that is one value of RFC 8259.     *)
(***************************************************************************)
C1_Balanced ==
    \* no token of a valid document is refused, its last one included
    /\ (IsValidDocument(toks) /\ tok = NoTok) =>
          err.kind \notin {"ParseError", "IndexError"}
    /\ (TokensEnded /\ IsValidDocument(toks)) =>
          /\ err = NoErr
          /\ OpenAfter(events) = <<>>
          /\ CountKinds(events, BEGINS) = CountKinds(events, ENDS)
          /\ Len(depths) = Len(events)
          /\ depths[Len(depths)] = 0
          /\ \A i \in 1..(Len(depths) - 1) : depths[i] > 0

\* A valid document with a container nested in another one was parsed.
C1_Witness ==
    /\ TokensEnded /\ IsValidDocument(toks)
    /\ \E i \in 1..Len(depths) : depths[i] = 2

(***************************************************************************)
(* C2.  After one complete top-level value, any further token makes the    *)
(* parser raise a ParseError.                                              *)
(***************************************************************************)
C2_TrailingTokenRejected ==
    (/\ tok = NoTok
     /\ Len(toks) >= 2
     /\ ValueEnd(toks, 1) \in 1..(Len(toks) - 1))
        => err.kind = "ParseError"

(***************************************************************************)
(* C3.  When the tokens end in a state other than NONE the parser raises   *)
(* the ParseError "End of file" that names the state; it never ends        *)
(* without an error while a container is open.                             *)
(***************************************************************************)
C3_EndOfFile ==
    /\ (ppc = "done" /\ pstate # "NONE") =>
          /\ err.kind = "ParseError"
          /\ err.msg = "End of file (current state = '{}')"
          /\ err.text = <<"ParserState." \o pstate>>
    /\ (ppc = "done" /\ (states # <<>> \/ OpenAfter(events) # <<>>)) =>
          err.kind = "ParseError"

\* The tokens ended after a member name and its ":" with no value.
C3_Witness ==
    /\ ppc = "done" /\ pstate = "IN_OBJECT_MEMBER_VALUE"
    /\ err.kind = "ParseError" /\ Len(states) = 1

(***************************************************************************)
(* C4.  A token that causes a ParseError is not emitted: NAME_SEPARATOR,   *)
(* VALUE_SEPARATOR and unmatched END_* tokens never appear in the events.  *)
(***************************************************************************)
C4_OnlyLegalTokensEmitted ==
    /\ \A i \in 1..Len(events) :
          events[i].kind \notin {"NAME_SEPARATOR", "VALUE_SEPARATOR"}
    /\ OpenAfter(events) # <<"unbalanced">>

(***************************************************************************)
(* C5.  On an accepted input the events are the lexer's tokens without the *)
(* NAME_SEPARATOR and VALUE_SEPARATOR tokens, each STRING in member-name   *)
(* position (the token before a NAME_SEPARATOR) replaced by the KEY of the *)
(* same literal, every other token unchanged and in order.                 *)
(***************************************************************************)
RECURSIVE ExpectedEvents(_, _)
ExpectedEvents(ts, i) ==
    IF i > Len(ts) THEN <<>>
    ELSE IF ts[i].kind \in {"NAME_SEPARATOR", "VALUE_SEPARATOR"}
         THEN ExpectedEvents(ts, i + 1)
    ELSE IF ts[i].kind = "STRING" /\ i < Len(ts) /\ ts[i + 1].kind = "NAME_SEPARATOR"
         THEN <<Tok("KEY", ts[i].lit)>> \o ExpectedEvents(ts, i + 1)
    ELSE <<ts[i]>> \o ExpectedEvents(ts, i + 1)

C5_EventsAreFilteredTokens ==
    Accepted => events = ExpectedEvents(toks, 1)

\* An object with a member was accepted: a key and a removed separator.
C5_Witness ==
    /\ Accepted
    /\ \E i \in 1..Len(events) : events[i].kind = "KEY"
    /\ \E i \in 1..Len(toks) : toks[i].kind = "NAME_SEPARATOR"
    /\ \E i \in 1..Len(events) : events[i].kind \in {"INT_VALUE", "STRING", "BOOLEAN_VALUE"}

(***************************************************************************)
(* C6.  A KEY is emitted only in state IN_OBJECT for a STRING token, with  *)
(* its literal; the token pulled next must be a NAME_SEPARATOR, any other  *)
(* one raises a ParseError; the event after a KEY, if any, is a scalar or  *)
(* a BEGIN_*, never an END_* or a KEY.                                     *)
(***************************************************************************)
C6_KeyStep ==
    /\ (events' # events /\ Last(events').kind = "KEY") =>
          /\ pstate = "IN_OBJECT" /\ tok.kind = "STRING"
          /\ Last(events').lit = tok.lit
    \* the body goes on after the yield of the KEY
    /\ (ppc = "yield" /\ ppc' = "pull" /\ Last(events).kind = "KEY") =>
          pstate' = "IN_OBJECT_MEMBER" /\ err' = NoErr
    /\ (pstate = "IN_OBJECT_MEMBER" /\ tok # NoTok /\ tok' = NoTok) =>
          IF tok.kind = "NAME_SEPARATOR"
          THEN err' = NoErr /\ events' = events
          ELSE err'.kind = "ParseError" /\ events' = events
    /\ \A i \in 1..(Len(events') - 1) :
          events'[i].kind = "KEY" => events'[i + 1].kind \in SCALARS \cup BEGINS

C6_KeyThenValue == [][C6_KeyStep]_vars

\* A KEY was emitted and an event follows it.
C6_Witness ==
    \E i \in 1..(Len(events) - 1) : events[i].kind = "KEY"

(***************************************************************************)
(* C7.  Every VALUE_SEPARATOR the parser accepts is preceded and followed  *)
(* by a value or member: a leading, doubled or trailing "," in an array or *)
(* object raises a ParseError.                                             *)
(***************************************************************************)
C7_SeparatorBetweenValues ==
    Accepted =>
        \A i \in 1..Len(toks) :
            toks[i].kind = "VALUE_SEPARATOR" =>
                /\ i > 1 /\ toks[i - 1].kind \in SCALARS \cup ENDS
                /\ i < Len(toks) /\ toks[i + 1].kind \in SCALARS \cup BEGINS

(***************************************************************************)
(* C8.  Each of the six states inside a container rejects every token it   *)
(* has no transition for with a ParseError that quotes the token and       *)
(* names the category of the state.                                        *)
(***************************************************************************)
\* The tokens a state has a transition for (spec 4.2).
Transitions(st) ==
    CASE st = "IN_ARRAY" -> {"END_ARRAY"} \cup SCALARS \cup BEGINS
      [] st = "IN_ARRAY_SEP" -> {"END_ARRAY", "VALUE_SEPARATOR"}
      [] st = "IN_OBJECT" -> {"END_OBJECT", "STRING"}
      [] st = "IN_OBJECT_MEMBER" -> {"NAME_SEPARATOR"}
      [] st = "IN_OBJECT_MEMBER_VALUE" -> SCALARS \cup BEGINS
      [] st = "IN_OBJECT_SEP" -> {"END_OBJECT", "VALUE_SEPARATOR"}

\* The message of the category of a state and its other parameters.
Category(st) ==
    CASE st = "IN_ARRAY" -> <<"Unexpected token '{}' as array element", <<>> >>
      [] st = "IN_ARRAY_SEP" -> <<"Unexpected token '{}' in array, expected '{}'",
                                  <<"LexerToken.VALUE_SEPARATOR">> >>
      [] st = "IN_OBJECT" -> <<"Unexpected token '{}' as object member", <<>> >>
      [] st = "IN_OBJECT_MEMBER" -> <<"Unexpected token '{}', expected {}",
                                      <<"LexerToken.NAME_SEPARATOR">> >>
      [] st = "IN_OBJECT_MEMBER_VALUE" -> <<"Unexpected token '{}' as member value", <<>> >>
      [] st = "IN_OBJECT_SEP" -> <<"Unexpected token '{}' in object", <<>> >>

C8_RejectStep ==
    (tok # NoTok /\ tok' = NoTok /\ pstate # "NONE") =>
        IF tok.kind \in Transitions(pstate)
        THEN err' = NoErr
        ELSE /\ err'.kind = "ParseError"
             /\ err'.msg = Category(pstate)[1]
             /\ err'.text = Category(pstate)[2]
             /\ err'.tok = tok
             /\ events' = events

C8_RejectWithCategory == [][C8_RejectStep]_vars

\* A value follows a value in an array with no "," between them.
C8_Witness ==
    /\ err.kind = "ParseError" /\ pstate = "IN_ARRAY_SEP"
    /\ err.tok.kind \in SCALARS /\ err.tok = Last(toks)
    /\ Len(toks) >= 3

(***************************************************************************)
(* C9.  A ParseError carries the lexer's line as its line and the lexer's  *)
(* column as its column.                                                   *)
(***************************************************************************)
C9_ParseErrorPosition ==
    err.kind = "ParseError" => (err.line = line /\ err.column = column)

(***************************************************************************)
(* C10.  Where the lexer yields a token or raises a LexError, column is    *)
(* the number of characters consumed from the source since the last        *)
(* newline.                                                                *)
(***************************************************************************)
RECURSIVE SinceNewline(_)
SinceNewline(cs) ==
    IF cs = <<>> \/ Last(cs) = "\n" THEN 0
    ELSE 1 + SinceNewline(SubSeq(cs, 1, Len(cs) - 1))

C10_ColumnCountsConsumed ==
    ((tok # NoTok /\ ppc = "pull") \/ err.kind = "LexError")
        => column = SinceNewline(consumed)

(***************************************************************************)
(* The lexer alone: positions, errors, ends of input, numbers, escapes.    *)
(***************************************************************************)
\* The number of occurrences of the character c in the text cs.
CountChar(cs, c) == Cardinality({i \in 1..Len(cs) : cs[i] = c})

\* The lexer raised (a JSONLexError or another exception of its code).
LexerRaised == err.kind \in {"LexError", "ValueError"}

\* C11: whenever the lexer has just yielded a token or has raised, line is the
\* number of newline characters it has read from the source so far.
C11_LineCountsNewlines ==
    (tok # NoTok \/ LexerRaised) => line = CountChar(consumed, "\n")

\* C12: whatever the lexer raises is a JSONLexError, with a message and the
\* line and the column the lexer is at; no other exception leaves the lexer.
C12_OnlyLexErrors ==
    /\ err.kind # "ValueError"
    /\ err.kind = "LexError" =>
          err.msg # "" /\ err.line = line /\ err.column = column

\* The characters the step reads from the source.
ReadNow == SubSeq(consumed', Len(consumed) + 1, Len(consumed'))

\* The text the iteration of the lexer handles in the step: the character
\* it starts with (pushed back, or read) and what it reads after it.
Handled == (IF unget # NoChar THEN <<unget>> ELSE <<>>) \o ReadNow

\* The literal a character opens out of a string and out of a number.
LiteralOf(c) ==
    CASE c = "t" -> <<"t", "r", "u", "e">>
      [] c = "f" -> <<"f", "a", "l", "s", "e">>
      [] c = "n" -> <<"n", "u", "l", "l">>
      [] OTHER -> <<>>

\* The number of characters the texts s and t begin with in common.
RECURSIVE CommonPrefix(_, _)
CommonPrefix(s, t) ==
    IF s = <<>> \/ t = <<>> \/ Head(s) # Head(t) THEN 0
    ELSE 1 + CommonPrefix(Tail(s), Tail(t))

\* C13: once a JSONLexError or a JSONParseError is raised nothing happens any
\* more (no character read, no token, no event, no other error); the step
\* that raises a JSONLexError yields no token and reads no character after
\* the first offending one (the character it handles, or the first
\* character that is not the one of the literal true, false or null that is
\* due); the step that raises a JSONParseError yields no event, reads no
\* character, and blames the last token the lexer yielded (or none, after
\* the last token).
C13_Step ==
    /\ err.kind \in {"LexError", "ParseError"} => UNCHANGED vars
    /\ (err.kind = "none" /\ err'.kind = "LexError") =>
          /\ toks' = toks /\ tok' = NoTok /\ events' = events
          /\ IF state = "NONE" /\ Handled # <<>>
                /\ LiteralOf(Handled[1]) # <<>>
             THEN Len(Handled)
                     <= CommonPrefix(Handled, LiteralOf(Handled[1])) + 1
             ELSE Len(Handled) <= 1
    /\ (err.kind = "none" /\ err'.kind = "ParseError") =>
          /\ events' = events /\ toks' = toks /\ consumed' = consumed
          /\ tok' = NoTok
          /\ IF lexpc = "returned" /\ tok = NoTok
             THEN err'.tok = NoTok
             ELSE err'.tok = Last(toks)

C13_ErrorsAreFinal == [][C13_Step]_vars

\* The number substates in which the text read so far is a whole number.
CompleteNumber ==
    {"ZERO_NUMBER_START", "OTHER_NUMBER", "NUMBER_FRAC", "NUMBER_FRAC_EXP",
     "NUMBER_FRAC_EXP_MINUS"}

\* The source ended while the lexer was inside a number: the generator is at
\* the yield of the number, or has returned or raised there.
EndedInNumber == lexpc \in {"yield_eof", "returned"} /\ state = "NUMBER"

\* C14: when the source ends inside a number, a complete substate yields the
\* buffered text as the last token (an int without fraction and exponent, a
\* float otherwise) and raises nothing; an incomplete one raises the
\* JSONLexError "Missing digits", "Missing decimals" or "Missing exp".
C14_EndOfInputInNumber ==
    EndedInNumber =>
       IF sub_state \in CompleteNumber
       THEN /\ ~LexerRaised
            /\ toks # <<>>
            /\ Last(toks) =
                  Tok(IF sub_state \in {"ZERO_NUMBER_START", "OTHER_NUMBER"}
                      THEN "INT_VALUE" ELSE "FLOAT_VALUE", buf)
       ELSE /\ err.kind = "LexError"
            /\ err.text = buf
            /\ err.msg =
                  CASE sub_state = "NEG_NUMBER_START" -> "Missing digits '{}'"
                    [] sub_state = "NUMBER_FRAC_START" -> "Missing decimals '{}'"
                    [] OTHER -> "Missing exp '{}'"

\* C15: when the source ends inside a string, in substate NONE, ESCAPE or
\* UNICODE, the step raises the JSONLexError "Missing end quote" with the
\* text decoded so far, and yields no token.
C15_Step ==
    (state = "STRING" /\ lexpc = "loop" /\ lexpc' \in {"yield_eof", "returned"}) =>
       /\ err' = LexError("Missing end quote '{}'", buf, line, column)
       /\ tok' = NoTok /\ toks' = toks

C15_MissingEndQuote == [][C15_Step]_vars

\* The source ended inside a unicode escape of the second string.
C15_Witness ==
    /\ lexpc = "returned" /\ state = "STRING" /\ sub_state = "UNICODE"
    /\ err.msg = "Missing end quote '{}'"
    /\ buf # <<>> /\ sub_buf # <<>> /\ toks # <<>>

\* C16: a digit read just after a leading zero (with or without a minus
\* before it) ends the number at the zero: the step yields an int, "0" if the
\* buffer is "0", and raises nothing; when the lexer is asked for the next
\* token it pushes the digit back, which then starts a number of its own; the
\* document 01 is lexed as the ints "0" and "1", and the document 0 as the
\* int "0".
C16_Step ==
    /\ (/\ state = "NUMBER" /\ sub_state = "ZERO_NUMBER_START"
        /\ consumed' # consumed /\ Last(consumed') \in DIGITS) =>
          /\ tok'.kind = "INT_VALUE"
          /\ buf = <<"0">> => tok'.lit = <<"0">>
          /\ err' = NoErr
          /\ lexpc' = "yield_number" /\ next_char' = Last(consumed')
    /\ (/\ lexpc = "yield_number" /\ lexpc' = "loop"
        /\ sub_state = "ZERO_NUMBER_START" /\ next_char \in DIGITS) =>
          /\ unget' = next_char /\ state' = "NONE" /\ consumed' = consumed
    /\ (/\ state = "NONE" /\ unget \in DIGITS /\ toks # <<>>
        /\ Last(toks) = Tok("INT_VALUE", <<"0">>)
        /\ tok = NoTok /\ ppc = "pull" /\ lexpc = "loop") =>
          /\ state' = "NUMBER" /\ buf' = <<unget>> /\ err' = NoErr
    /\ (lexpc' = "returned" /\ consumed' = <<"0", "1">>) =>
          /\ toks' = <<Tok("INT_VALUE", <<"0">>), Tok("INT_VALUE", <<"1">>)>>
          /\ err' = NoErr
    /\ (lexpc' = "returned" /\ consumed' = <<"0">>) =>
          /\ toks' = <<Tok("INT_VALUE", <<"0">>)>>
          /\ err' = NoErr

C16_LeadingZero == [][C16_Step]_vars

\* The document -01 was lexed as two ints.
C16_Witness ==
    /\ lexpc = "returned" /\ consumed = <<"-", "0", "1">>
    /\ Len(toks) = 2 /\ toks[2] = Tok("INT_VALUE", <<"1">>)
    /\ err = NoErr

\* The character an escape stands for (RFC 8259, section 7), for the escapes
\* of one letter the lexer knows.
SimpleEscapes == {"\"", "\\", "b", "f", "n", "r", "t"}

Unescaped(c) ==
    CASE c = "\"" -> "\""
      [] c = "\\" -> "\\"
      [] c = "b" -> BS
      [] c = "f" -> "\f"
      [] c = "n" -> "\n"
      [] c = "r" -> "\r"
      [] c = "t" -> "\t"

\* C17: in a string, the character read after a backslash, when it is one of
\* the seven escapes of one letter, appends the one character it stands for
\* to the buffer and brings the lexer back to the plain string substate; the
\* string of the escapes t r n b f is the five control characters in that
\* order, and the string of the escape u0062 is b.
C17_Step ==
    /\ (/\ state = "STRING" /\ sub_state = "ESCAPE"
        /\ consumed' # consumed /\ Last(consumed') \in SimpleEscapes) =>
          /\ buf' = buf \o <<Unescaped(Last(consumed'))>>
          /\ state' = "STRING" /\ sub_state' = "NONE"
          /\ tok' = NoTok /\ err' = NoErr
    /\ (/\ lexpc' = "returned"
        /\ consumed' = <<"\"", "\\", "t", "\\", "r", "\\", "n", "\\", "b",
                         "\\", "f", "\"">>) =>
          /\ toks' = <<Tok("STRING", <<"\t", "\r", "\n", BS, "\f">>)>>
          /\ err' = NoErr
    /\ (/\ lexpc' = "returned"
        /\ consumed' = <<"\"", "\\", "u", "0", "0", "6", "2", "\"">>) =>
          /\ toks' = <<Tok("STRING", <<"b">>)>>
          /\ err' = NoErr

C17_Escapes == [][C17_Step]_vars

\* A string of three escapes: a quote, a backslash, a newline.
C17_Witness ==
    /\ toks = <<Tok("STRING", <<"\"", "\\", "\n">>)>>
    /\ consumed = <<"\"", "\\", "\"", "\\", "\\", "\\", "n", "\"">>

\* C18: the lexer is in substate ESCAPE after a character other than the
\* backslash only if that character is not an escape and was refused with the
\* JSONLexError "Unknown escaped char": a character read after a backslash
\* is an escape or an error, it is never skipped.
C18_UnknownEscapeRaises ==
    (state = "STRING" /\ sub_state = "ESCAPE" /\ Last(consumed) # "\\") =>
       /\ Last(consumed) \notin SimpleEscapes \cup {"u"}
       /\ err = LexError("Unknown escaped char: '{}'", <<Last(consumed)>>,
                         line, column)

\* The value of four hexadecimal digits, most significant first.
HexValue4(ds) ==
    4096 * HexVal(ds[1]) + 256 * HexVal(ds[2]) + 16 * HexVal(ds[3]) + HexVal(ds[4])

\* C19: a step taken inside a unicode escape either leaves the escape open
\* and the buffer as it is, or closes it on the fourth of four hexadecimal
\* digits and appends the one code unit of their value; the string of the
\* two escapes ud83c udf09 (a surrogate pair) has two code units.
C19_Step ==
    /\ (state = "STRING" /\ sub_state = "UNICODE") =>
          \/ sub_state' = "UNICODE" /\ buf' = buf
          \/ /\ state' = "STRING" /\ sub_state' = "NONE"
             /\ consumed' # consumed
             /\ LET ds == sub_buf \o <<Last(consumed')>>
                IN /\ Len(ds) = 4
                   /\ \A i \in 1..4 : ds[i] \in HEXDIG
                   /\ buf' = buf \o <<Chr(HexValue4(ds))>>
    /\ (/\ lexpc' = "returned"
        /\ consumed' = <<"\"", "\\", "u", "d", "8", "3", "c",
                         "\\", "u", "d", "f", "0", "9", "\"">>) =>
          /\ toks' = <<Tok("STRING", <<Chr(55356), Chr(57097)>>)>>
          /\ err' = NoErr

C19_UnicodeEscape == [][C19_Step]_vars

\* s is the beginning of t.
IsPrefix(s, t) == Len(s) <= Len(t) /\ s = SubSeq(t, 1, Len(s))

(***************************************************************************)
(* The renderer.                                                           *)
(***************************************************************************)
\* The renderer raised an exception of its own code.
RendererRaised == err.kind \in {"IndexError", "AssertionError", "TypeError"}

(***************************************************************************)
(* C21.  JSONAsXML renders every event sequence of the parser, the top     *)
(* level value an object, an array or a scalar, without raising, and on a  *)
(* malformed document the only exceptions that reach the caller of         *)
(* JSONAsXML or json2xml are JSONLexError and JSONParseError: whatever was *)
(* read, no exception or one of these two.                                 *)
(***************************************************************************)
C21_OnlyJsonErrors ==
    rpc # "absent" => err.kind \in {"none", "LexError", "ParseError"}

\* The parser alone accepts the tokens ts from the i-th on, in state st with
\* the stack stk: no token is refused and the state at the end is NONE.
RECURSIVE ParserAccepts(_, _, _, _)
ParserAccepts(st, stk, ts, i) ==
    IF i > Len(ts) THEN st = "NONE"
    ELSE LET r == IF st = "NONE" THEN ParseNone(stk, ts[i])
                  ELSE ParseTok(st, stk, ts[i])
         IN r.emsg = "" /\ ParserAccepts(r.state, r.states, ts, i + 1)

\* A fragment without its indentation and its newline.
RECURSIVE Unindent(_)
Unindent(f) ==
    IF f # <<>> /\ Head(f) = " " THEN Unindent(Tail(f))
    ELSE IF f # <<>> /\ Last(f) = "\n" THEN SubSeq(f, 1, Len(f) - 1)
    ELSE f

\* The name that starts at position i of a text: up to a blank, a slash or
\* an angle bracket.
RECURSIVE NameAt(_, _)
NameAt(f, i) ==
    IF i > Len(f) \/ f[i] \in {" ", "/", ">"} THEN <<>>
    ELSE <<f[i]>> \o NameAt(f, i + 1)

\* What a fragment is: the header, an end tag, an element with its start
\* and its end, or a start tag; and the name of its tag.
FragKind(f) ==
    LET g == Unindent(f)
    IN IF Len(g) >= 2 /\ g[1] = "<" /\ g[2] = "?" THEN "header"
       ELSE IF Len(g) >= 2 /\ g[1] = "<" /\ g[2] = "/" THEN "end"
       ELSE IF \/ (Len(g) >= 2 /\ g[Len(g) - 1] = "/" /\ g[Len(g)] = ">")
               \/ \E i \in 2..(Len(g) - 1) : g[i] = "<" /\ g[i + 1] = "/"
       THEN "element"
       ELSE "start"
FragName(f) ==
    LET g == Unindent(f)
    IN IF FragKind(f) = "end" THEN NameAt(g, 3) ELSE NameAt(g, 2)

\* An element ends with the end tag of its name, or is an empty element.
ElementClosed(f) ==
    LET g == Unindent(f)
        n == FragName(f)
        e == <<"<", "/">> \o n \o <<">">>
    IN \/ g[Len(g) - 1] = "/"
       \/ (Len(g) >= Len(e) /\ SubSeq(g, Len(g) - Len(e) + 1, Len(g)) = e)

\* The fragments from the i-th on close the open tags in LIFO order, each
\* end tag with the name of the start tag it closes, and leave none open;
\* the tag that is opened first is closed by the last fragment.
RECURSIVE TagsMatch(_, _, _)
TagsMatch(frs, i, open) ==
    IF i > Len(frs) THEN open = <<>>
    ELSE CASE FragKind(frs[i]) = "start" ->
                 (i = 2 \/ open # <<>>)
                 /\ TagsMatch(frs, i + 1, Append(open, FragName(frs[i])))
           [] FragKind(frs[i]) = "end" ->
                 /\ open # <<>> /\ Last(open) = FragName(frs[i])
                 /\ (Len(open) = 1 => i = Len(frs))
                 /\ TagsMatch(frs, i + 1, SubSeq(open, 1, Len(open) - 1))
           [] FragKind(frs[i]) = "element" ->
                 /\ open # <<>> /\ ElementClosed(frs[i])
                 /\ TagsMatch(frs, i + 1, open)
           [] OTHER -> i = 1 /\ TagsMatch(frs, i + 1, open)

\* The names of the tags the events from the i-th on ask for, in order:
\* the list item tag in an array, the escaped key in an object, none for
\* the top level value; ctx is the stack of the open containers.
RECURSIVE TagNames(_, _, _, _)
TagNames(evs, i, ctx, key) ==
    IF i > Len(evs) THEN <<>>
    ELSE LET e == evs[i]
             name == IF ctx = <<>> THEN <<>>
                     ELSE IF Last(ctx) = "BEGIN_ARRAY" THEN <<LIST_ITEM_TAG>>
                     ELSE <<key>>
         IN CASE e.kind \in BEGINS ->
                    name \o TagNames(evs, i + 1, Append(ctx, e.kind), key)
              [] e.kind \in ENDS ->
                    TagNames(evs, i + 1, SubSeq(ctx, 1, Len(ctx) - 1), key)
              [] e.kind = "KEY" ->
                    TagNames(evs, i + 1, ctx, EscapeTag(e.lit))
              [] OTHER -> name \o TagNames(evs, i + 1, ctx, key)

\* The names of the start tags and of the elements of the fragments.
OpenedNames(frs) ==
    LET idx == {i \in 1..Len(frs) : FragKind(frs[i]) \in {"start", "element"}}
        RECURSIVE Names(_)
        Names(i) == IF i > Len(frs) THEN <<>>
                    ELSE (IF i \in idx THEN <<FragName(frs[i])>> ELSE <<>>)
                         \o Names(i + 1)
    IN Names(1)

\* The document ended (the lexer has returned, or is at the yield of the
\* number the end of the source ended), its first token opens an object or
\* an array, and the parser alone accepts its tokens.
AcceptedContainer ==
    /\ rpc # "absent" /\ lexpc \in {"yield_eof", "returned"} /\ toks # <<>>
    /\ toks[1].kind \in BEGINS
    /\ ParserAccepts("NONE", <<>>, toks, 1)

(***************************************************************************)
(* C22.  For every accepted document whose top level value is an object or *)
(* an array the fragments are, in order: the header, the root start tag,   *)
(* for each member or element a start tag matched by an end tag of the     *)
(* same name in LIFO order (the list item tag for an element, the escaped  *)
(* key for a member), and the root end tag last; no tag is left open or    *)
(* closed twice.  So the renderer does not raise on such a document, and   *)
(* once it ended its fragments are matched and named so.                   *)
(***************************************************************************)
C22_TagsMatched ==
    AcceptedContainer =>
        /\ ~RendererRaised
        /\ rpc = "done" =>
              /\ out[1] = XML_HEADER \o <<"\n">>
              /\ FragKind(out[2]) = "start" /\ FragName(out[2]) = ROOT_TAG
              /\ FragKind(out[Len(out)]) = "end"
              /\ FragName(out[Len(out)]) = ROOT_TAG
              /\ TagsMatch(out, 1, <<>>)
              /\ OpenedNames(out) = <<ROOT_TAG>> \o TagNames(events, 1, <<>>, <<>>)

\* The same for the documents of the JSON grammar only.
C22_ValidDocuments ==
    (AcceptedContainer /\ IsValidDocument(toks)) => C22_TagsMatched

(***************************************************************************)
(* Numbers, literals and strings again.                                    *)
(***************************************************************************)
\* The characters that continue a number in a complete substate.
Continues(ss) ==
    CASE ss = "ZERO_NUMBER_START" -> {".", "e", "E"}
      [] ss = "OTHER_NUMBER" -> DIGITS \cup {".", "e", "E"}
      [] ss = "NUMBER_FRAC" -> DIGITS \cup {"e", "E"}
      [] OTHER -> DIGITS

\* The lexer reads a character of the source in this step.
ReadsChar == consumed' # consumed /\ Len(consumed') = Len(consumed) + 1

(***************************************************************************)
(* C23.  In a complete number substate any character that cannot continue  *)
(* the number, whitespace of any kind included, completes the token: the   *)
(* step yields an int from the substates of a zero or of digits, a float   *)
(* from the others; when the lexer is asked for the next token it is back  *)
(* in state NONE and the character is pushed back to be read again there.  *)
(***************************************************************************)
C23_Step ==
    /\ (/\ state = "NUMBER" /\ sub_state \in CompleteNumber
        /\ ReadsChar /\ Last(consumed') \notin Continues(sub_state)) =>
          /\ tok'.kind = IF sub_state \in {"ZERO_NUMBER_START", "OTHER_NUMBER"}
                         THEN "INT_VALUE" ELSE "FLOAT_VALUE"
          /\ lexpc' = "yield_number" /\ next_char' = Last(consumed')
          /\ err' = NoErr
    /\ (lexpc = "yield_number" /\ lexpc' = "loop") =>
          /\ state' = "NONE" /\ sub_state' = "NONE"
          /\ unget' = next_char

C23_NumberEnds == [][C23_Step]_vars

\* The text with every E in lower case.
LowerE(cs) == [i \in 1..Len(cs) |-> IF cs[i] = "E" THEN "e" ELSE cs[i]]

NUMBERS == {"INT_VALUE", "FLOAT_VALUE"}

(***************************************************************************)
(* C24.  The literal of an int or float token is exactly the characters    *)
(* consumed for the number, sign and digits verbatim, with E in lower case *)
(* only, whether a following character or the end of the source ends the   *)
(* number.  For a number that is the first token of a document without     *)
(* blanks: the literal is all that was read, less the character that ended *)
(* the number.                                                             *)
(***************************************************************************)
C24_Step ==
    (toks = <<>> /\ toks' # <<>> /\ toks'[1].kind \in NUMBERS) =>
        toks'[1].lit = LowerE(IF lexpc' = "yield_number"
                              THEN SubSeq(consumed', 1, Len(consumed') - 1)
                              ELSE consumed')

C24_LiteralVerbatim == [][C24_Step]_vars

\* The literal has a dot or an e.
HasDotOrExp(lit) == \E i \in 1..Len(lit) : lit[i] \in {".", "e"}

(***************************************************************************)
(* C25.  A number token is an int exactly when the number is completed in  *)
(* the substate of a zero or of digits, and a float exactly when it is     *)
(* completed in the substate of a fraction or of the digits of an          *)
(* exponent, with or without a minus; a number token is a float if and     *)
(* only if its literal has a dot or an e.                                  *)
(***************************************************************************)
C25_Step ==
    (state = "NUMBER" /\ tok = NoTok /\ tok' # NoTok) =>
        /\ tok'.kind \in NUMBERS
        /\ tok'.kind = "INT_VALUE" <=>
              sub_state \in {"ZERO_NUMBER_START", "OTHER_NUMBER"}
        /\ tok'.kind = "FLOAT_VALUE" <=>
              sub_state \in {"NUMBER_FRAC", "NUMBER_FRAC_EXP",
                             "NUMBER_FRAC_EXP_MINUS"}
        /\ tok'.kind = "FLOAT_VALUE" <=> HasDotOrExp(tok'.lit)

C25_IntOrFloat == [][C25_Step]_vars

\* An int ended by a character, then a float without a dot ended by the end
\* of the source.
C25_Witness ==
    /\ lexpc = "returned" /\ err = NoErr /\ Len(toks) >= 2
    /\ toks[1].kind = "INT_VALUE"
    /\ Last(toks).kind = "FLOAT_VALUE"
    /\ \A i \in 1..Len(Last(toks).lit) : Last(toks).lit[i] # "."

\* The text of a string, its quotes taken off, with each escape decoded:
\* a raw character stands for itself, a backslash with one of the seven
\* letters for the character of the letter, a backslash with u and four
\* hexadecimal digits for the code unit of their value.
RECURSIVE Decoded(_)
Decoded(cs) ==
    IF cs = <<>> THEN <<>>
    ELSE IF cs[1] # "\\" THEN <<cs[1]>> \o Decoded(Tail(cs))
    ELSE IF Len(cs) >= 2 /\ cs[2] \in SimpleEscapes
    THEN <<Unescaped(cs[2])>> \o Decoded(Drop(cs, 2))
    ELSE IF Len(cs) >= 6 /\ cs[2] = "u"
            /\ \A i \in 3..6 : cs[i] \in HEXDIG
    THEN <<Chr(HexValue4(SubSeq(cs, 3, 6)))>> \o Decoded(Drop(cs, 6))
    ELSE <<"undecodable">>

(***************************************************************************)
(* C26.  The literal of a string token is the concatenation, in order, of  *)
(* every raw character and every decoded escape between the opening quote  *)
(* and the first unescaped closing quote: no character is dropped,         *)
(* reordered or duplicated.  For a string that is the first token of a     *)
(* document that starts with its quote: the literal is the decoded text of *)
(* what was read between the two quotes.                                   *)
(***************************************************************************)
C26_Step ==
    (/\ toks = <<>> /\ toks' # <<>> /\ toks'[1].kind = "STRING"
     /\ Head(consumed') = "\"") =>
        toks'[1].lit = Decoded(SubSeq(consumed', 2, Len(consumed') - 1))

C26_StringLiteral == [][C26_Step]_vars

\* The lexer handles a character in state NONE in this step: the character
\* pushed back, or else the next one of the source.
HandlesInNone ==
    /\ state = "NONE" /\ tok = NoTok /\ ppc = "pull" /\ lexpc = "loop"
    /\ err = NoErr
    /\ unget # NoChar \/ Len(consumed') > Len(consumed)

HandledChar == IF unget # NoChar THEN unget ELSE consumed'[Len(consumed) + 1]

\* What the step read after the character it handles.
ReadAfter ==
    SubSeq(consumed', Len(consumed) + (IF unget # NoChar THEN 1 ELSE 2),
           Len(consumed'))

\* The step yields the token t and raises nothing, if what follows the
\* letter is the rest of the literal; or else raises the error msg and
\* yields nothing.
LiteralOrError(rest, t, msg) ==
    IF ReadAfter = rest
    THEN tok' = t /\ err' = NoErr
    ELSE tok' = NoTok /\ toks' = toks
         /\ err'.kind = "LexError" /\ err'.msg = msg

STRUCTURALS == {"{", "}", "[", "]", ":", ","}

(***************************************************************************)
(* C27.  In state NONE the letters f, t and n yield the tokens of false,   *)
(* true and null only if the 4, 3 and 3 characters that follow are exactly *)
(* alse, rue and ull, and raise the JSONLexError "Expected 'false'",       *)
(* "Expected 'true'" and "Expected 'null'" otherwise; any character that   *)
(* is not whitespace, structural, a minus, a digit, a quote or one of f,   *)
(* t, n raises "Unexpected char".                                          *)
(***************************************************************************)
C27_Step ==
    HandlesInNone =>
        /\ HandledChar = "f" =>
              LiteralOrError(<<"a", "l", "s", "e">>,
                             Tok("BOOLEAN_VALUE", PyFalse), "Expected 'false'")
        /\ HandledChar = "t" =>
              LiteralOrError(<<"r", "u", "e">>,
                             Tok("BOOLEAN_VALUE", PyTrue), "Expected 'true'")
        /\ HandledChar = "n" =>
              LiteralOrError(<<"u", "l", "l">>,
                             Tok("NULL_VALUE", None), "Expected 'null'")
        /\ HandledChar \notin WHITE_SPACES \cup STRUCTURALS \cup DIGITS
                              \cup {"-", "\"", "f", "t", "n"} =>
              /\ tok' = NoTok /\ toks' = toks
              /\ err'.kind = "LexError"
              /\ err'.msg = "Unexpected char '{}'"
              /\ err'.text = <<HandledChar>>

C27_Literals == [][C27_Step]_vars

\* null and false were yielded, then a t that the letters rue do not follow
\* raised.
C27_Witness ==
    /\ toks = <<Tok("NULL_VALUE", None), Tok("BOOLEAN_VALUE", PyFalse)>>
    /\ err.kind = "LexError" /\ err.msg = "Expected 'true'"

\* The substates of a number that is not complete, the characters that go
\* on with the number there, and the error of any other character.
IncompleteNumber ==
    {"NEG_NUMBER_START", "NUMBER_FRAC_START", "NUMBER_FRAC_EXP_START",
     "NUMBER_FRAC_EXP_MINUS_START"}
GoesOn(ss) ==
    IF ss = "NUMBER_FRAC_EXP_START" THEN DIGITS \cup {"-"} ELSE DIGITS
BrokenNumber(ss) ==
    CASE ss = "NEG_NUMBER_START" -> "Expected digit, got '{}'"
      [] ss = "NUMBER_FRAC_START" -> "Missing decimals '{}'"
      [] OTHER -> "Missing exp '{}'"

(***************************************************************************)
(* C28.  In a number substate that is not complete every character that is *)
(* not an allowed continuation raises a JSONLexError and no token is       *)
(* yielded: after a minus only a digit goes on ("Expected digit"), after   *)
(* the dot only a digit ("Missing decimals"), after the e only a minus or  *)
(* a digit, after the minus of the exponent only a digit ("Missing exp").  *)
(***************************************************************************)
C28_Step ==
    (/\ state = "NUMBER" /\ sub_state \in IncompleteNumber
     /\ ReadsChar /\ Last(consumed') \notin GoesOn(sub_state)) =>
        /\ err'.kind = "LexError" /\ err'.msg = BrokenNumber(sub_state)
        /\ tok' = NoTok /\ toks' = toks

C28_IncompleteNumber == [][C28_Step]_vars

(***************************************************************************)
(* The pipeline: laziness, the stack of the parser.                        *)
(***************************************************************************)
\* A sequence but its last element.
Front(evs) == SubSeq(evs, 1, Len(evs) - 1)

\* The text cs ends with the text e.
EndsWith(cs, e) ==
    Len(cs) >= Len(e) /\ SubSeq(cs, Len(cs) - Len(e) + 1, Len(cs)) = e

\* The last characters of the source a token that is not a number is made
\* of.
TokenEnd(t) ==
    CASE t.kind = "BEGIN_OBJECT" -> <<"{">>
      [] t.kind = "END_OBJECT" -> <<"}">>
      [] t.kind = "BEGIN_ARRAY" -> <<"[">>
      [] t.kind = "END_ARRAY" -> <<"]">>
      [] t.kind = "NAME_SEPARATOR" -> <<":">>
      [] t.kind = "VALUE_SEPARATOR" -> <<",">>
      [] t.kind = "STRING" -> <<"\"">>
      [] t.kind = "NULL_VALUE" -> <<"n", "u", "l", "l">>
      [] t.kind = "BOOLEAN_VALUE" ->
            IF t.lit = PyTrue THEN <<"t", "r", "u", "e">>
            ELSE <<"f", "a", "l", "s", "e">>
      [] OTHER -> <<>>

\* The lexer read up to the end of the token t and no further, but for one
\* character after a number: t is the last token yielded, the generator of
\* the lexer is at the yield of t, no later token is begun, and what was
\* read ends with t, or with the number (its E in lower case, as the lexer
\* keeps it) and at most one character after it, which is the character
\* that ended the number if one did.
ReadUpTo(t) ==
    /\ toks # <<>> /\ t = Last(toks) /\ unget = NoChar
    /\ IF t.kind \in NUMBERS
       THEN /\ state = "NUMBER"
            /\ \/ /\ lexpc = "yield_number"
                  /\ consumed # <<>> /\ Last(consumed) = next_char
                  /\ EndsWith(LowerE(Front(consumed)), buf)
               \/ /\ lexpc = "yield_eof" /\ next_char = NoChar
                  /\ \/ EndsWith(LowerE(consumed), buf)
                     \/ /\ consumed # <<>>
                        /\ EndsWith(LowerE(Front(consumed)), buf)
       ELSE /\ lexpc \in {"yield", "yield_string"}
            /\ EndsWith(consumed, TokenEnd(t)) /\ state = "NONE"

(***************************************************************************)
(* C29.  The pipeline is lazy: when the parser emits the event of a token  *)
(* the lexer has consumed the characters up to the end of that token, plus *)
(* one character read too far after a number only, and no character of a   *)
(* later token; so the JSONParseError of a token is raised before any      *)
(* error of the lexer further in the source can be.                        *)
(***************************************************************************)
C29_Step ==
    /\ events' # events => ReadUpTo(tok) /\ consumed' = consumed
    /\ (err = NoErr /\ err'.kind = "ParseError" /\ err'.tok # NoTok) =>
          /\ err'.tok = tok /\ ReadUpTo(tok) /\ consumed' = consumed

C29_Lazy == [][C29_Step]_vars

\* The parser is between two tokens, the body of its loop run to its end for
\* the last one, or ended, and raised nothing.
BetweenTokens == ppc \in {"pull", "done"} /\ err = NoErr


(***************************************************************************)
(* C30.  At every step of the parser, a token handled and nothing raised,  *)
(* the depth of its stack is the depth of nesting, the number of BEGIN     *)
(* events less the number of END events, and the stack is empty exactly    *)
(* when the state is NONE.  While the consumer holds an event, the body of *)
(* the loop at its yield, the stack and the state are those of the events  *)
(* before that one.                                                        *)
(***************************************************************************)
C30_StackIsNesting ==
    /\ BetweenTokens =>
          /\ Len(states) = CountKinds(events, BEGINS) - CountKinds(events, ENDS)
          /\ states = <<>> <=> pstate = "NONE"
    /\ (ppc = "yield" /\ err = NoErr) =>
          /\ Len(states) = CountKinds(Front(events), BEGINS)
                             - CountKinds(Front(events), ENDS)
          /\ states = <<>> <=> pstate = "NONE"

\* Two containers are open after one was closed.
C30_Witness ==
    /\ BetweenTokens /\ Len(states) = 2
    /\ CountKinds(events, ENDS) >= 1

\* The state after a member or an element of a container of the kind k.
SepState(k) == IF k = "array" THEN "IN_ARRAY_SEP" ELSE "IN_OBJECT_SEP"

(***************************************************************************)
(* C31.  The parser never pops an empty stack.  The bottom entry of the    *)
(* stack is NONE and every entry above it is IN_ARRAY_SEP or IN_OBJECT_SEP *)
(* according to the kind of the container that encloses the nested one,    *)
(* so that the end of a nested container resumes the separator state of    *)
(* its parent.                                                             *)
(***************************************************************************)
C31_Step ==
    /\ err'.kind # "IndexError"
    /\ (ppc' \in {"pull", "done"} /\ err' = NoErr) =>
          LET open == OpenAfter(events')
          IN /\ Len(open) = Len(states')
             /\ states' # <<>> => states'[1] = "NONE"
             /\ \A i \in 2..Len(states') : states'[i] = SepState(open[i - 1])
    \* the body goes on after the yield of an END_ARRAY or END_OBJECT
    /\ (/\ ppc = "yield" /\ ppc' = "pull" /\ Last(events).kind \in ENDS
        /\ err' = NoErr) =>
          /\ states # <<>>
          /\ pstate' = Last(states)
          /\ states' = SubSeq(states, 1, Len(states) - 1)
          /\ states' # <<>> => pstate' = SepState(Last(OpenAfter(events)))

C31_StackContents == [][C31_Step]_vars

\* An array nested in an object was closed: the parser is in the separator
\* state of the object.
C31_Witness ==
    /\ BetweenTokens /\ events # <<>> /\ Last(events).kind = "END_ARRAY"
    /\ states = <<"NONE">> /\ pstate = "IN_OBJECT_SEP"

(***************************************************************************)
(* The character pushed back, the end of the iteration, the end of input.  *)
(***************************************************************************)
\* The lexer runs one iteration of its loop in any step taken from here.
LexerTurn ==
    err = NoErr /\ lexpc = "loop" /\ tok = NoTok /\ ppc = "pull"

(***************************************************************************)
(* C32.  The buffer of the pushed back character holds one character at    *)
(* most, the last one read.  A pushed back character is the next character *)
(* the lexer handles, before any further read of the source; it is handled *)
(* in state NONE as the character it is; it is never lost: only the        *)
(* iteration that handles it empties the buffer; and the iteration that    *)
(* handles it pushes nothing back.                                         *)
(***************************************************************************)
C32_Step ==
    /\ unget' # NoChar => consumed' # <<>> /\ unget' = Last(consumed')
    /\ (unget = NoChar /\ unget' # NoChar) =>
          lexpc = "yield_number" /\ unget' = next_char /\ consumed' = consumed
    /\ (unget # NoChar /\ unget' # unget) => LexerTurn
    /\ (unget # NoChar /\ ~LexerTurn) => unget' = unget
    /\ (unget # NoChar /\ LexerTurn) =>
          /\ state = "NONE"
          /\ unget' = NoChar
          /\ unget \notin {"f", "t", "n"} => consumed' = consumed
          /\ unget \in WHITE_SPACES =>
                tok' = NoTok /\ state' = "NONE" /\ err' = NoErr
          /\ unget \in STRUCTURALS =>
                tok' # NoTok /\ TokenEnd(tok') = <<unget>> /\ err' = NoErr
          /\ unget \in DIGITS \cup {"-"} =>
                state' = "NUMBER" /\ buf' = <<unget>> /\ tok' = NoTok
          /\ unget = "\"" => state' = "STRING" /\ tok' = NoTok
          /\ unget \notin WHITE_SPACES \cup STRUCTURALS \cup DIGITS
                          \cup {"-", "\"", "f", "t", "n"} =>
                /\ err'.kind = "LexError"
                /\ err'.msg = "Unexpected char '{}'"
                /\ err'.text = <<unget>>

C32_OnePushedBack == [][C32_Step]_vars

\* The comma that ended the number 1 was pushed back and handled.
C32_Witness ==
    /\ consumed = <<"1", ",">> /\ unget = NoChar
    /\ toks = <<Tok("INT_VALUE", <<"1">>), Tok("VALUE_SEPARATOR", None)>>

\* The iteration is over: the parser ended or an exception was raised.
Terminated == ppc = "done" \/ err # NoErr

\* An iteration of the loop of the lexer that is not the last one consumes
\* a character of the source or the pushed back character, and pushes
\* nothing back when it consumes the pushed back one.
C33_Step ==
    (LexerTurn /\ lexpc' \notin {"yield_eof", "returned"}) =>
        /\ \/ unget = NoChar /\ Len(consumed') > Len(consumed)
           \/ unget # NoChar /\ unget' = NoChar
        /\ Len(consumed') >= Len(consumed)

(***************************************************************************)
(* C33.  For every finite source the iteration of the lexer, and of the    *)
(* parser over it, terminates, with the end of the sequence or with an     *)
(* error: every iteration of the loop consumes a character of the source   *)
(* or the pushed back character, and an iteration that consumes the pushed *)
(* back character pushes none back.                                        *)
(***************************************************************************)
C33_Terminates == [][C33_Step]_vars /\ <>Terminated

\* The parser ended after the lexer handled a pushed back character.
C33_Witness ==
    /\ ppc = "done" /\ err = NoErr
    /\ \E i \in 1..Len(toks) : toks[i].kind = "INT_VALUE" /\ i < Len(toks)

(***************************************************************************)
(* C34.  The end of the input is checked in the initial state of the       *)
(* parser too: whenever the parser ends without raising it has emitted one *)
(* event at least; a source without a token, empty or of blanks only, is   *)
(* not accepted.                                                           *)
(***************************************************************************)
C34_NoEmptyDocument == Accepted => events # <<>>

\* An exception of the lexer or of the parser went through json2xml.
JsonErrorPropagated ==
    rpc # "absent" /\ err.kind \in {"LexError", "ParseError"}

(***************************************************************************)
(* C35.  json2xml writes each fragment to dest as soon as its event is     *)
(* produced: when a JSONLexError or a JSONParseError propagates, dest      *)
(* holds the header, the root start tag and the fragments of every event   *)
(* emitted before the failure, it does not hold the root end tag, and      *)
(* nothing written is rolled back.                                         *)
(***************************************************************************)
C35_Step ==
    /\ IsPrefix(dest, dest')
    /\ JsonErrorPropagated' =>
          /\ Len(dest') >= 2
          /\ dest'[1] = XML_HEADER \o <<"\n">>
          /\ dest'[2] = FmtStartTag(formatted, <<>>, ROOT_TAG)
          /\ rendered' = Len(events') /\ Len(depths') = Len(events')
          /\ dest' = out'
          /\ OpenedNames(dest') = <<ROOT_TAG>> \o TagNames(events', 1, <<>>, <<>>)
          /\ Cardinality({i \in 1..Len(dest') : FragKind(dest'[i]) = "end"})
                = Cardinality({i \in 1..Len(events') :
                                  events'[i].kind \in ENDS /\ depths'[i] > 0})
          /\ \A i \in 1..Len(dest') :
                dest'[i] # FmtEndTag(formatted, <<>>, ROOT_TAG)

C35_WrittenAsProduced == [][C35_Step]_vars

\* The token that opens a container of the kind k.
BeginOf(k) == IF k = "array" THEN "BEGIN_ARRAY" ELSE "BEGIN_OBJECT"

\* The renderer handles the event t in this step.
Renders(t) ==
    /\ rpc = "pull" /\ rendered' = rendered + 1
    /\ t = events[rendered + 1]

\* The body of the loop of the renderer runs to its end for the event t in
\* this step: from its yield, or from its beginning if it yields nothing.
EndsBody(t) ==
    \/ rpc = "yield" /\ rpc' = "pull" /\ t = events[rendered]
    \/ /\ rpc = "pull" /\ rpc' = "pull" /\ rendered' = rendered + 1
       /\ t = events[rendered + 1]

(***************************************************************************)
(* C36.  While the renderer consumes the events of a document whose top    *)
(* level value is an object or an array, the depth of states_stack is the  *)
(* depth of nesting of the parser and its top entry is the kind of the     *)
(* innermost open container; a KEY event finds BEGIN_OBJECT on top of      *)
(* states_stack; keys_stack is not read or popped when empty; both stacks  *)
(* are empty once the top level container has closed.                      *)
(***************************************************************************)
C36_Step ==
    (rpc # "absent" /\ events # <<>> /\ events[1].kind \in BEGINS) =>
        /\ err'.kind # "AssertionError"
        /\ (rpc' = "pull" /\ ~RendererRaised') =>
              LET open == OpenAfter(SubSeq(events', 1, rendered'))
              IN /\ Len(states_stack') = Len(open)
                 /\ \A i \in 1..Len(open) : states_stack'[i] = BeginOf(open[i])
                 /\ (rendered' = Len(events') /\ ppc' = "pull" /\ err' = NoErr) =>
                       Len(states_stack') = Len(states')
                 /\ (rendered' > 0 /\ open = <<>>) =>
                       states_stack' = <<>> /\ keys_stack' = <<>>
        /\ \A t \in {events[i] : i \in 1..Len(events)} :
              (Renders(t) /\ states_stack # <<>>) =>
                 /\ t.kind = "KEY" => Last(states_stack) = "BEGIN_OBJECT"
                 /\ (/\ t.kind \in BEGINS \cup SCALARS
                     /\ Last(states_stack) = "BEGIN_OBJECT") => keys_stack # <<>>
                 /\ (t.kind \in ENDS /\ Len(states_stack) >= 2) =>
                       keys_stack # <<>>

C36_RendererStacks == [][C36_Step]_vars

\* The renderer ended on an object with a member that is an array.
C36_Witness ==
    /\ rpc = "done" /\ Len(events) >= 5
    /\ events[2].kind = "KEY" /\ events[3].kind = "BEGIN_ARRAY"

(***************************************************************************)
(* C37.  For any sequence of begin and end events and any depth of         *)
(* nesting, the lookup self._tabs[tab_count] is within the bounds of the   *)
(* table and tab_count is never negative: the table is doubled whenever    *)
(* tab_count reaches its length, and its entry i is i times 4 blanks with  *)
(* formatted, None without.                                                *)
(***************************************************************************)
C37_Step ==
    rpc # "absent" =>
        /\ tab_count' >= 0 /\ tab_count' < Len(tabs')
        /\ \A i \in 1..Len(tabs') :
              tabs'[i] = IF formatted THEN Blanks(4 * (i - 1)) ELSE None
        /\ Len(tabs') = IF tab_count' = Len(tabs) THEN 2 * Len(tabs)
                        ELSE Len(tabs)
        /\ \A t \in {events[i] : i \in 1..Len(events)} :
              (EndsBody(t) /\ t.kind \in BEGINS) =>
                 /\ err' = NoErr
                 /\ tab_count' = tab_count + 1
                 /\ spaces' = tabs'[tab_count' + 1]

C37_TabsInBounds == [][C37_Step]_vars

\* The table was doubled and the renderer ended.
C37_Witness == rpc = "done" /\ Len(tabs) = 2 * TabsLen

====
